---------------------------- MODULE Spec2Model ----------------------------
(***************************************************************************)
(* Pomogaika wine backend: the cache manager of main.py (wine_cache,       *)
(* cache_ready, get_wines, the warm-up task and the request handlers that  *)
(* read the cache), the worker pool that runs fetch_wines_sync, and the    *)
(* aggregator and source adapters of wine_parser.py that the fetch calls.  *)
(*                                                                         *)
(* Scheduling: the handlers are coroutines of one asyncio event loop, so a *)
(* coroutine runs without interruption from one await to the next; every   *)
(* coroutine action below is one such segment.  fetch_wines_sync runs on a *)
(* thread of the ThreadPoolExecutor and the clock advances independently   *)
(* of the loop.                                                            *)
(***************************************************************************)
EXTENDS Integers, Sequences, FiniteSets, TLC

(***************************************************************************)
(* Bounds of the model.                                                    *)
(***************************************************************************)
NumClients == 2
MaxTicks == 2
\* _diverse_selection on its own: longest list, largest limit and largest
\* min_per_store
MaxLen == 4
MaxLimit == 3
MaxMinPerStore == 2
\* get_recommendations: longest sequence of calls on one engine
MaxCalls == 2

(***************************************************************************)
(* Program constants.                                                      *)
(***************************************************************************)
TTL == 1800
ReadyTimeout == 90
BaseScore == 50
RegionBonus == 20
GrapeBonus == 15
DiscountBonus == 10
HasRegionBonus == 5
MaxScore == 100
DefaultLimit == 80
DefaultMinPerStore == 3

(***************************************************************************)
(* Python values.  None of an Optional[float]/Optional[int] is NoneNum,    *)
(* None of an Optional[str] is NoneStr; str values are sequences of        *)
(* characters.  Prices are in cents.                                       *)
(***************************************************************************)
NoneNum == -1
NoneStr == <<"None">>
NoneNote == [key |-> "None", lang |-> "None"]

TruthyNum(x) == x # NoneNum /\ x # 0
TruthyStr(s) == s # NoneStr /\ s # <<>>

Max(a, b) == IF a >= b THEN a ELSE b
Min(a, b) == IF a <= b THEN a ELSE b

UpperToLower ==
  [A |-> "a", B |-> "b", C |-> "c", D |-> "d", E |-> "e", F |-> "f",
   G |-> "g", H |-> "h", I |-> "i", J |-> "j", K |-> "k", L |-> "l",
   M |-> "m", N |-> "n", O |-> "o", P |-> "p", Q |-> "q", R |-> "r",
   S |-> "s", T |-> "t", U |-> "u", V |-> "v", W |-> "w", X |-> "x",
   Y |-> "y", Z |-> "z"]

\* str.lower()
Lower(s) ==
  [i \in 1..Len(s) |->
     IF s[i] \in DOMAIN UpperToLower THEN UpperToLower[s[i]] ELSE s[i]]

\* the Python test `sub in s` on two str values
In(sub, s) ==
  \E k \in 0..(Len(s) - Len(sub)) :
     \A i \in 1..Len(sub) : s[k + i] = sub[i]

(***************************************************************************)
(* Names, regions and grapes used by the catalogue and the pairing table.  *)
(***************************************************************************)
sRioja == <<"R","i","o","j","a">>
sRueda == <<"R","u","e","d","a">>
sRibera == <<"R","i","b","e","r","a">>
sRiberaDelDuero ==
  <<"R","i","b","e","r","a"," ","d","e","l"," ","D","u","e","r","o">>
sRiasBaixas == <<"R","i","a","s"," ","B","a","i","x","a","s">>
sTempranillo == <<"t","e","m","p","r","a","n","i","l","l","o">>
sAlbarino == <<"a","l","b","a","r","i","n","o">>
sVerdejo == <<"v","e","r","d","e","j","o">>
sGodello == <<"g","o","d","e","l","l","o">>
sChardonnay == <<"c","h","a","r","d","o","n","n","a","y">>
sGarnacha == <<"g","a","r","n","a","c","h","a">>
sValdeorras == <<"V","a","l","d","e","o","r","r","a","s">>
sPenedes == <<"P","e","n","e","d","e","s">>
sNavarra == <<"N","a","v","a","r","r","a">>
sMacabeo == <<"m","a","c","a","b","e","o">>
sXarello == <<"x","a","r","e","l","l","o">>
sParellada == <<"p","a","r","e","l","l","a","d","a">>

nameC1 == <<"T","i","n","t","o"," ","R","i","o","j","a">>
nameC2 == <<"T","i","n","t","o"," ","T","e","m","p","r","a","n","i","l","l","o">>
nameM1 == <<"V","i","n","o"," ","t","i","n","t","o">>
nameS1 == <<"V","i","n","a"," ","S","o","l">>
nameRosado == <<"R","o","s","a","d","o"," ","G","a","r","n","a","c","h","a"," ",
                "T","e","m","p","r","a","n","i","l","l","o">>
sRiojaNavarra == <<"R","i","o","j","a"," ","/"," ","N","a","v","a","r","r","a">>
nameD1 == <<"G","r","a","n"," ","R","e","s","e","r","v","a">>
nameCava == <<"C","a","v","a"," ","M","a","c","a","b","e","o"," ",
              "X","a","r","e","l","l","o"," ",
              "P","a","r","e","l","l","a","d","a">>
brandA == <<"A">>

(***************************************************************************)
(* wine_parser.Wine: the record a source adapter builds.                   *)
(***************************************************************************)
Wine(id, name, brand, price, ppl, store, region, wtype, dprice, dpct) ==
  [id |-> id, name |-> name, brand |-> brand, price |-> price,
   price_per_liter |-> ppl, store |-> store, url |-> id,
   image_url |-> NoneStr, ean |-> NoneStr, region |-> region,
   wine_type |-> wtype, discount_price |-> dprice,
   discount_percent |-> dpct]

Stores == <<"consum", "mercadona", "masymas", "dia">>

\* fetch_wines_sync's wine_types argument, and the premium query
WineTypes == <<"tinto", "blanco", "rosado", "cava">>
Premium == "premium"
Queries == {WineTypes[i] : i \in 1..Len(WineTypes)} \cup {Premium}

wC1 == Wine("consum_1", nameC1, brandA, 500, 667, "consum", sRioja, "tinto", 400, 19)
wC2 == Wine("consum_2", nameC2, brandA, 900, 1200, "consum", NoneStr, "tinto", NoneNum, NoneNum)
wM1 == Wine("mercadona_1", nameM1, <<>>, 300, 400, "mercadona", NoneStr, "tinto", NoneNum, NoneNum)
\* consum_1 as the later premium query lists it: the offer is over
wC1p == Wine("consum_1", nameC1, brandA, 500, 667, "consum", sRioja, "tinto", NoneNum, NoneNum)
\* a Masymas product whose name states no type: _parse_product gives it the
\* type of the query that found it (wine_parser.py 590-592)
wS1 == Wine("masymas_1", nameS1, brandA, 450, 600, "masymas", NoneStr, "tinto", NoneNum, NoneNum)
wS1r == Wine("masymas_1", nameS1, brandA, 450, 600, "masymas", NoneStr, "rosado", NoneNum, NoneNum)
\* a DIA product that two of the premium queries find, at two prices
wD1 == Wine("dia_1", nameD1, brandA, 1200, 1600, "dia", NoneStr, "tinto", NoneNum, NoneNum)
wD1b == Wine("dia_1", nameD1, brandA, 1200, 1600, "dia", NoneStr, "tinto", 1100, 8)

(***************************************************************************)
(* What each store's endpoint lists for a query when it answers well.      *)
(***************************************************************************)
Catalog(store, q) ==
  CASE store = "consum" /\ q = "tinto" -> <<wC1>>
    [] store = "consum" /\ q = Premium -> <<wC1p, wC2>>
    [] store = "mercadona" /\ q = "tinto" -> <<wM1>>
    [] store = "masymas" /\ q = "tinto" -> <<wS1>>
    [] store = "masymas" /\ q = "rosado" -> <<wS1r>>
    [] store = "dia" /\ q = Premium -> <<wD1, wD1b>>
    [] OTHER -> <<>>

(***************************************************************************)
(* How an endpoint answers one request: well, not at all within any time   *)
(* ("hang"), with a connection error, with a non-2xx status, or with a     *)
(* payload that is not the expected JSON object.                           *)
(***************************************************************************)
Responses == {"ok", "unreachable", "http_error", "bad_payload", "hang"}

Calls == {"consum", "mercadona", "masymas", "dia"} \X Queries

AllAnswer(resp) == [c \in Calls |-> resp]
OneAnswers(store, q, resp) ==
  [c \in Calls |-> IF c = <<store, q>> THEN resp ELSE "ok"]

\* the behaviours of the four endpoints during one aggregate fetch
Scenarios ==
  {AllAnswer("ok"), AllAnswer("unreachable"), AllAnswer("http_error")}
  \cup {OneAnswers(Stores[i], "tinto", resp) :
          i \in 1..Len(Stores),
          resp \in {"unreachable", "bad_payload", "hang"}}

(***************************************************************************)
(* Source adapters.  The result of search_wines is [kind, wines]: kind is  *)
(* "return" with the list returned, "raise" when an exception leaves the   *)
(* method, "hang" when the call never comes back.                          *)
(***************************************************************************)
Returned(ws) == [kind |-> "return", wines |-> ws]
Raised == [kind |-> "raise", wines |-> <<>>]
Hung == [kind |-> "hang", wines |-> <<>>]

\* session.get(..., timeout=15) inside try / except RequestException /
\* except Exception: every failure, a timeout included, gives []
GuardedSearch(store, q, resp) ==
  IF resp = "ok" THEN Returned(Catalog(store, q)) ELSE Returned(<<>>)

ConsumSearchWines(q, resp) == GuardedSearch("consum", q, resp)
MasymasSearchWines(q, resp) == GuardedSearch("masymas", q, resp)
DIASearchWines(q, resp) == GuardedSearch("dia", q, resp)

\* session.post(...) without a timeout, only RequestException is caught
MercadonaSearchWines(q, resp) ==
  CASE resp = "ok" -> Returned(Catalog("mercadona", q))
    [] resp = "hang" -> Hung
    [] resp = "bad_payload" -> Raised
    [] OTHER -> Returned(<<>>)

SearchWines(store, q, resp) ==
  CASE store = "consum" -> ConsumSearchWines(q, resp)
    [] store = "mercadona" -> MercadonaSearchWines(q, resp)
    [] store = "masymas" -> MasymasSearchWines(q, resp)
    [] OTHER -> DIASearchWines(q, resp)

(***************************************************************************)
(* The adapters' record parsers, as far as price and discount go.  Prices  *)
(* are in cents; a field the record lacks is NoneNum.  The result is the   *)
(* Wine built (its price fields) or None.                                  *)
(***************************************************************************)
Parsed(price, dprice, dpct) ==
  [kind |-> "wine", price |-> price, discount_price |-> dprice,
   discount_percent |-> dpct]
Dropped == [kind |-> "none"]

\* value.get(key, 0) or 0
OrZero(x) == IF x = NoneNum THEN 0 ELSE x

\* integer division rounding towards zero, as int() does
TruncDiv(a, b) == IF a >= 0 THEN a \div b ELSE 0 - ((0 - a) \div b)

\* the pairs (price, discount_price) of the prices used here for which the
\* double (1 - discount_price / price) * 100 falls just short, in absolute
\* value, of the exact integer: 10.00 and 9.00 give 9.999999999999998
FloatShort == {<<1000, 900>>, <<750, 900>>, <<1000, 1200>>}

\* int((1 - discount_price / price) * 100)
PercentOff(price, dprice) ==
  LET exact == TruncDiv((price - dprice) * 100, price)
  IN IF <<price, dprice>> \notin FloatShort THEN exact
     ELSE IF exact > 0 THEN exact - 1 ELSE exact + 1

\* ConsumParser._parse_product: price is the price resolved from the price
\* fields, offer is offers[0].price (NoneNum: no offers)
ConsumParseProduct(price, offer) ==
  IF OrZero(price) = 0 THEN Dropped
  ELSE IF offer = NoneNum THEN Parsed(price, NoneNum, NoneNum)
  ELSE IF price > 0 /\ offer > 0
       THEN Parsed(price, offer, PercentOff(price, offer))
       ELSE Parsed(price, offer, NoneNum)

\* MercadonaParser._parse_hit: unit_price and previous_unit_price of
\* price_instructions
MercadonaParseHit(unit_price, previous_unit_price) ==
  IF TruthyNum(previous_unit_price)
  THEN Parsed(previous_unit_price, OrZero(unit_price),
              PercentOff(previous_unit_price, OrZero(unit_price)))
  ELSE Parsed(OrZero(unit_price), NoneNum, NoneNum)

\* MasymasParser._parse_product: the PRICE and OFFER_PRICE entries
MasymasParseProduct(price, offer) ==
  IF OrZero(price) = 0 THEN Dropped
  ELSE IF TruthyNum(offer) /\ offer > 0 /\ price > offer
       THEN Parsed(price, offer, PercentOff(price, offer))
       ELSE Parsed(price, offer, NoneNum)

\* DIAParser._parse_card: the unit price, the strikethrough price and the
\* discount badge of the card (badge.present: both elements are on the
\* card; badge.pct: the number before "%" in its text, NoneNum if none)
DIAParseCard(price, strike, badge) ==
  IF OrZero(price) = 0 THEN Dropped
  ELSE IF badge.present /\ OrZero(strike) > 0 /\ OrZero(strike) > price
       THEN Parsed(strike, price,
                   IF badge.pct # NoneNum THEN badge.pct
                   ELSE PercentOff(strike, price))
       ELSE Parsed(price, NoneNum, NoneNum)

\* a call sequence: the first call that does not return ends the sequence
\* with its outcome, otherwise the lists are concatenated in call order
RECURSIVE Chain(_)
Chain(outs) ==
  IF outs = <<>> THEN Returned(<<>>)
  ELSE IF Head(outs).kind # "return" THEN Head(outs)
  ELSE LET rest == Chain(Tail(outs))
       IN IF rest.kind # "return" THEN rest
          ELSE Returned(Head(outs).wines \o rest.wines)

\* WineAggregator.search_all: consum, mercadona, masymas, dia in this order
SearchAll(q, env) ==
  Chain([i \in 1..Len(Stores) |-> SearchWines(Stores[i], q, env[<<Stores[i], q>>])])

\* keep the first item of every id, in order
RECURSIVE DedupFrom(_, _)
DedupFrom(ws, seen) ==
  IF ws = <<>> THEN <<>>
  ELSE IF Head(ws).id \in seen THEN DedupFrom(Tail(ws), seen)
  ELSE <<Head(ws)>> \o DedupFrom(Tail(ws), seen \cup {Head(ws).id})

\* WineAggregator.search_all_types: search_all for every type, deduplicated
SearchAllTypes(types, env) ==
  LET all == Chain([i \in 1..Len(types) |-> SearchAll(types[i], env)])
  IN IF all.kind # "return" THEN all
     ELSE Returned(DedupFrom(all.wines, {}))

\* WineAggregator.search_premium: the premium queries on every store
SearchPremium(env) == SearchAll(Premium, env)

\* fetch_wines_sync appending every premium item
FetchWinesSyncNoSeen(env) ==
  LET all_wines == SearchAllTypes(WineTypes, env)
      premium_wines == IF all_wines.kind = "return"
                       THEN SearchPremium(env) ELSE all_wines
  IN IF all_wines.kind # "return" THEN all_wines
     ELSE IF premium_wines.kind # "return" THEN premium_wines
     ELSE Returned(all_wines.wines
                   \o premium_wines.wines)

\* fetch_wines_sync with seen_ids left as the primary pass gave it
FetchWinesSyncSeenFixed(env) ==
  LET all_wines == SearchAllTypes(WineTypes, env)
      premium_wines == IF all_wines.kind = "return"
                       THEN SearchPremium(env) ELSE all_wines
  IN IF all_wines.kind # "return" THEN all_wines
     ELSE IF premium_wines.kind # "return" THEN premium_wines
     ELSE Returned(all_wines.wines
                   \o SelectSeq(premium_wines.wines,
                                LAMBDA pw : \A i \in 1..Len(all_wines.wines) :
                                              all_wines.wines[i].id # pw.id))

\* fetch_wines_sync
FetchWinesSync(env) ==
  LET all_wines == SearchAllTypes(WineTypes, env)
      premium_wines == IF all_wines.kind = "return"
                       THEN SearchPremium(env) ELSE all_wines
  IN IF all_wines.kind # "return" THEN all_wines
     ELSE IF premium_wines.kind # "return" THEN premium_wines
     ELSE Returned(all_wines.wines
                   \o DedupFrom(premium_wines.wines,
                                {all_wines.wines[i].id : i \in 1..Len(all_wines.wines)}))

\* main.WineResponse built from a parser Wine (get_wines, the loop body)
WineResponse(pw) ==
  [id |-> pw.id, name |-> pw.name, brand |-> pw.brand, price |-> pw.price,
   price_per_liter |-> pw.price_per_liter, store |-> pw.store,
   url |-> pw.url, image_url |-> pw.image_url, ean |-> pw.ean,
   region |-> pw.region, wine_type |-> pw.wine_type,
   discount_price |-> pw.discount_price,
   discount_percent |-> pw.discount_percent,
   match_score |-> NoneNum, expert_note |-> NoneNote]

ToResponses(pws) == [i \in 1..Len(pws) |-> WineResponse(pws[i])]

(***************************************************************************)
(* sommelier.py: the pairing tables (the entries the requests below use)   *)
(* and SommelierEngine.get_recommendations as recommend_wines calls it     *)
(* (lang keeps its default "en", max_results its default 3).               *)
(***************************************************************************)
Rec(style, grapes, regions, wtype, description, priority) ==
  [style |-> style, grape_varieties |-> grapes, regions |-> regions,
   wine_type |-> wtype, description |-> description, priority |-> priority]

PAIRING_MATRIX(dish, cooking_method) ==
  CASE dish = "fish" /\ cooking_method = "grilled" ->
         <<Rec("white_full", <<sGodello, sChardonnay>>, <<sValdeorras, sPenedes>>,
               "blanco", "Grilling adds intensity - needs fuller white", 1),
           Rec("rose", <<sGarnacha, sTempranillo>>, <<sNavarra, sRioja>>,
               "rosado", "Rose is versatile with grilled fish", 2)>>
    [] dish = "meat" /\ cooking_method = "grilled" ->
         <<Rec("red_medium", <<sTempranillo>>, <<sRioja, sRiberaDelDuero>>,
               "tinto", "Classic: grilled steak + Tempranillo Crianza", 1)>>
    [] OTHER -> <<>>

DEFAULT_RECOMMENDATIONS(dish) ==
  CASE dish = "fish" ->
         <<Rec("white_light", <<sAlbarino, sVerdejo>>, <<sRiasBaixas, sRueda>>,
               "blanco", "Fresh white wine for fish", 1)>>
    [] dish = "meat" ->
         <<Rec("red_medium", <<sTempranillo>>, <<sRioja, sRiberaDelDuero>>,
               "tinto", "Red Tempranillo - classic with meat", 1)>>
    [] OTHER -> <<>>

AperitivoRec ==
  Rec("sparkling", <<sMacabeo, sXarello, sParellada>>, <<sPenedes>>, "cava",
      "Cava - perfect choice for aperitivo", 0)

\* the permutation that list.sort applies: position of element i of a list
\* with the given integer keys after a stable ascending sort
SortRank(keys, i) ==
  Cardinality({j \in 1..Len(keys) :
                 keys[j] < keys[i] \/ (keys[j] = keys[i] /\ j < i)}) + 1

SortByKeys(seq, keys) ==
  [r \in 1..Len(seq) |-> seq[CHOOSE i \in 1..Len(seq) : SortRank(keys, i) = r]]

\* SommelierEngine.get_recommendations(dish, cooking_method, meal_time)
GetRecommendations(dish, cooking_method, meal_time) ==
  LET exact == IF cooking_method # "None"
               THEN PAIRING_MATRIX(dish, cooking_method) ELSE <<>>
      base == IF exact # <<>> THEN exact ELSE DEFAULT_RECOMMENDATIONS(dish)
      sparkling == IF meal_time = "aperitivo" THEN <<AperitivoRec>> \o base
                   ELSE base
      modified == IF meal_time \in {"lunch"}
                  THEN [i \in 1..Len(sparkling) |->
                          IF sparkling[i].style \in {"red_full", "white_full"}
                          THEN [sparkling[i] EXCEPT !.priority = @ + 2]
                          ELSE sparkling[i]]
                  ELSE sparkling
      sorted == SortByKeys(modified, [i \in 1..Len(modified) |-> modified[i].priority])
  IN SubSeq(sorted, 1, Min(3, Len(sorted)))

(***************************************************************************)
(* main.py: localisation of the summary and of the expert note.  A text is *)
(* <<source text, language>>; language "src" is the source text itself.    *)
(***************************************************************************)
Langs == {"ru", "uk", "be", "en", "es"}

\* keys of SUMMARY_TRANSLATIONS whose "en" entry differs from the key
EnDiffers == {"Rose is versatile with grilled fish",
              "Red Tempranillo - classic with meat",
              "Cava - perfect choice for aperitivo"}

SUMMARY_KEYS == {"Grilling adds intensity - needs fuller white",
                 "Rose is versatile with grilled fish",
                 "Classic: grilled steak + Tempranillo Crianza",
                 "Fresh white wine for fish",
                 "Red Tempranillo - classic with meat",
                 "Cava - perfect choice for aperitivo"}

translate_summary(description, lang) ==
  IF description \in SUMMARY_KEYS
  THEN IF lang \in Langs \ {"en"} THEN <<description, lang>>
       ELSE IF description \in EnDiffers THEN <<description, "en">>
       ELSE <<description, "src">>
  ELSE <<description, "src">>

\* keys of sommelier.TRANSLATIONS among the descriptions above (every entry
\* has "ru", "uk", "be" and "es", none has "en")
TRANSLATIONS_KEYS == SUMMARY_KEYS

\* sommelier.translate
translate(text, lang) ==
  IF lang = "en" \/ lang \notin {"ru", "uk", "be", "es"}
  THEN <<text, "src">>
  ELSE IF text \in TRANSLATIONS_KEYS THEN <<text, lang>>
  ELSE <<text, "src">>

(***************************************************************************)
(* sommelier.py: get_recommendations with the class attributes as values,  *)
(* so that what a call does to them can be told.  tables.matrix is         *)
(* PAIRING_MATRIX, tables.defaults is DEFAULT_RECOMMENDATIONS; the         *)
(* descriptions are texts <<source text, language>> as above.              *)
(***************************************************************************)
sMonastrell == <<"m","o","n","a","s","t","r","e","l","l">>
sJumilla == <<"J","u","m","i","l","l","a">>

MatrixKeys == {<<"fish", "grilled">>, <<"meat", "grilled">>}
DefaultKeys == {"fish", "meat"}

SourceTexts(recs) ==
  [i \in 1..Len(recs) |-> [recs[i] EXCEPT !.description = <<@, "src">>]]

\* the tables as the class body builds them
ClassTables ==
  [matrix   |-> [k \in MatrixKeys |-> SourceTexts(PAIRING_MATRIX(k[1], k[2]))],
   defaults |-> [d \in DefaultKeys |-> SourceTexts(DEFAULT_RECOMMENDATIONS(d))]]

MEAL_TIME_MODIFIERS ==
  [lunch     |-> {"prefer_light", "avoid_full_bodied"},
   dinner    |-> {},
   aperitivo |-> {"prefer_sparkling", "prefer_light"},
   digestivo |-> {"prefer_full_bodied", "prefer_aged"}]

\* modifier.get(flag) of the meal time, {} when the meal time has no entry
Modifier(meal_time) ==
  IF meal_time \in DOMAIN MEAL_TIME_MODIFIERS
  THEN MEAL_TIME_MODIFIERS[meal_time] ELSE {}

DigestivoRec ==
  Rec("red_full", <<sTempranillo, sMonastrell>>,
      <<sRioja, sRiberaDelDuero, sJumilla>>, "tinto",
      <<"Rich aged red wine - perfect digestif to end the meal", "src">>, 0)

\* translate on a description: a text that is already a translation is no
\* key of TRANSLATIONS
TranslateText(t, lang) == IF t[2] = "src" THEN translate(t[1], lang) ELSE t

\* steps 3 to 5 of get_recommendations on the list `recommendations`
ModifySortTranslate(recommendations, meal_time, lang) ==
  LET sparkling == IF "prefer_sparkling" \in Modifier(meal_time)
                   THEN SourceTexts(<<AperitivoRec>>) \o recommendations
                   ELSE recommendations
      raised == IF "avoid_full_bodied" \in Modifier(meal_time)
                THEN [i \in 1..Len(sparkling) |->
                        IF sparkling[i].style \in {"red_full", "white_full"}
                        THEN [sparkling[i] EXCEPT !.priority = @ + 2]
                        ELSE sparkling[i]]
                ELSE sparkling
      full == IF "prefer_full_bodied" \in Modifier(meal_time)
              THEN <<DigestivoRec>> \o raised ELSE raised
      sorted == SortByKeys(full, [i \in 1..Len(full) |-> full[i].priority])
  IN IF lang # "en"
     THEN [i \in 1..Len(sorted) |->
             [sorted[i] EXCEPT !.description = TranslateText(@, lang)]]
     ELSE sorted

\* get_recommendations working on the lists of the tables themselves
get_recommendationsNoCopy(tables, a) ==
  LET key == <<a.dish, a.cooking_method>>
      exact == IF a.cooking_method # "None" /\ key \in DOMAIN tables.matrix
               THEN tables.matrix[key] ELSE <<>>
      fallback == exact = <<>> /\ a.dish \in DOMAIN tables.defaults
      recommendations == IF exact # <<>> THEN exact
                         ELSE IF fallback THEN tables.defaults[a.dish]
                         ELSE <<>>
      final == ModifySortTranslate(recommendations, a.meal_time, a.lang)
  IN [result |-> SubSeq(final, 1, Min(a.max_results, Len(final))),
      tables |-> IF exact # <<>>
                 THEN [tables EXCEPT !.matrix[key] = final]
                 ELSE IF fallback
                 THEN [tables EXCEPT !.defaults[a.dish] = final]
                 ELSE tables]

\* SommelierEngine.get_recommendations(dish, cooking_method, meal_time,
\* lang, max_results) (cuisine is not read): the list returned and the
\* tables after the call.  The list worked on is a deep copy.
get_recommendations(tables, a) ==
  LET key == <<a.dish, a.cooking_method>>
      exact == IF a.cooking_method # "None" /\ key \in DOMAIN tables.matrix
               THEN tables.matrix[key] ELSE <<>>
      fallback == exact = <<>> /\ a.dish \in DOMAIN tables.defaults
      recommendations == IF exact # <<>> THEN exact
                         ELSE IF fallback THEN tables.defaults[a.dish]
                         ELSE <<>>
      final == ModifySortTranslate(recommendations, a.meal_time, a.lang)
  IN [result |-> SubSeq(final, 1, Min(a.max_results, Len(final))),
      tables |-> tables]

sRiasBaixasAccent == <<"R","i_acute","a","s"," ","B","a","i","x","a","s">>
sPriorat == <<"P","r","i","o","r","a","t">>
sBierzo == <<"B","i","e","r","z","o">>
sPenedesAccent == <<"P","e","n","e","d","e_grave","s">>

\* REGION_NOTES, keys in dictionary order
REGION_NOTES ==
  << [key |-> "Rioja", text |-> sRioja], [key |-> "Ribera", text |-> sRibera],
     [key |-> "Rias Baixas", text |-> sRiasBaixasAccent],
     [key |-> "Rueda", text |-> sRueda], [key |-> "Priorat", text |-> sPriorat],
     [key |-> "Jumilla", text |-> sJumilla], [key |-> "Bierzo", text |-> sBierzo],
     [key |-> "Navarra", text |-> sNavarra],
     [key |-> "Penedes", text |-> sPenedesAccent] >>

NoteIn(key, lang) ==
  [key |-> key, lang |-> IF lang \in Langs THEN lang ELSE "en"]

get_expert_note(wine, lang) ==
  LET hits == {i \in 1..Len(REGION_NOTES) :
                 TruthyStr(wine.region) /\ In(REGION_NOTES[i].text, wine.region)}
  IN IF hits # {}
     THEN NoteIn(REGION_NOTES[CHOOSE i \in hits : \A j \in hits : i <= j].key, lang)
     ELSE IF wine.wine_type = "cava" THEN NoteIn("cava", lang)
     ELSE NoteIn("default", lang)

(***************************************************************************)
(* main.py: score_wine (nested in recommend_wines) and _diverse_selection. *)
(***************************************************************************)
\* score_wine counting every grape found in the name, and no min(score, 100)
score_wineEveryGrape(wine, primary_rec) ==
  LET region_hit == TruthyStr(wine.region)
                    /\ \E i \in 1..Len(primary_rec.regions) :
                          In(Lower(primary_rec.regions[i]), Lower(wine.region))
      grape_hits == {i \in 1..Len(primary_rec.grape_varieties) :
                      In(Lower(primary_rec.grape_varieties[i]), Lower(wine.name))}
  IN BaseScore
     + (IF region_hit THEN RegionBonus ELSE 0)
     + Cardinality(grape_hits) * GrapeBonus
     + (IF TruthyNum(wine.discount_price) THEN DiscountBonus ELSE 0)
     + (IF TruthyStr(wine.region) THEN HasRegionBonus ELSE 0)

\* score_wine adding to the score the item already carries
score_wineFromStored(wine, primary_rec) ==
  LET region_hit == TruthyStr(wine.region)
                    /\ \E i \in 1..Len(primary_rec.regions) :
                          In(Lower(primary_rec.regions[i]), Lower(wine.region))
      grape_hit == \E i \in 1..Len(primary_rec.grape_varieties) :
                      In(Lower(primary_rec.grape_varieties[i]), Lower(wine.name))
      score == (IF TruthyNum(wine.match_score) THEN wine.match_score
                ELSE BaseScore)
               + (IF region_hit THEN RegionBonus ELSE 0)
               + (IF grape_hit THEN GrapeBonus ELSE 0)
               + (IF TruthyNum(wine.discount_price) THEN DiscountBonus ELSE 0)
               + (IF TruthyStr(wine.region) THEN HasRegionBonus ELSE 0)
  IN Min(score, MaxScore)

score_wine(wine, primary_rec) ==
  LET region_hit == TruthyStr(wine.region)
                    /\ \E i \in 1..Len(primary_rec.regions) :
                          In(Lower(primary_rec.regions[i]), Lower(wine.region))
      grape_hit == \E i \in 1..Len(primary_rec.grape_varieties) :
                      In(Lower(primary_rec.grape_varieties[i]), Lower(wine.name))
      score == BaseScore
               + (IF region_hit THEN RegionBonus ELSE 0)
               + (IF grape_hit THEN GrapeBonus ELSE 0)
               + (IF TruthyNum(wine.discount_price) THEN DiscountBonus ELSE 0)
               + (IF TruthyStr(wine.region) THEN HasRegionBonus ELSE 0)
  IN Min(score, MaxScore)

\* key=lambda w: w.match_score or 0
ScoreKey(w) == IF TruthyNum(w.match_score) THEN w.match_score ELSE 0

\* list.sort(key=..., reverse=True): descending, equal keys keep their order
SortByScoreDesc(ws) == SortByKeys(ws, [i \in 1..Len(ws) |-> 0 - ScoreKey(ws[i])])

\* by_store: the stores in order of first appearance
RECURSIVE StoreOrder(_, _)
StoreOrder(ws, seen) ==
  IF ws = <<>> THEN <<>>
  ELSE IF Head(ws).store \in seen THEN StoreOrder(Tail(ws), seen)
  ELSE <<Head(ws).store>> \o StoreOrder(Tail(ws), seen \cup {Head(ws).store})

\* phase 1: append each candidate whose id is not selected yet
RECURSIVE AppendUnseen(_, _)
AppendUnseen(selected, cands) ==
  IF cands = <<>> THEN selected
  ELSE IF Head(cands).id \in {selected[i].id : i \in 1..Len(selected)}
  THEN AppendUnseen(selected, Tail(cands))
  ELSE AppendUnseen(Append(selected, Head(cands)), Tail(cands))

RECURSIVE Phase1(_, _, _, _)
Phase1(selected, stores, wines, min_per_store) ==
  IF stores = <<>> THEN selected
  ELSE LET IsOfStore(w) == w.store = Head(stores)
           store_wines == SortByScoreDesc(SelectSeq(wines, IsOfStore))
           top == SubSeq(store_wines, 1, Min(Max(min_per_store, 0), Len(store_wines)))
       IN Phase1(AppendUnseen(selected, top), Tail(stores), wines, min_per_store)

\* phase 2: append from remaining while fewer than limit are selected
RECURSIVE Phase2(_, _, _)
Phase2(selected, remaining, limit) ==
  IF remaining = <<>> \/ Len(selected) >= limit THEN selected
  ELSE Phase2(Append(selected, Head(remaining)), Tail(remaining), limit)

\* _diverse_selection returning a short list as it came
_diverse_selectionUnsorted(wines, limit, min_per_store) ==
  IF Len(wines) <= limit THEN wines
  ELSE LET phase1 == Phase1(<<>>, StoreOrder(wines, {}), wines, min_per_store)
           ids == {phase1[i].id : i \in 1..Len(phase1)}
           NotSelected(w) == w.id \notin ids
           remaining == SortByScoreDesc(SelectSeq(wines, NotSelected))
       IN SortByScoreDesc(Phase2(phase1, remaining, limit))

\* _diverse_selection without phase 1
_diverse_selectionNoPhase1(wines, limit, min_per_store) ==
  IF Len(wines) <= limit THEN SortByScoreDesc(wines)
  ELSE LET phase1 == <<>>
           ids == {phase1[i].id : i \in 1..Len(phase1)}
           NotSelected(w) == w.id \notin ids
           remaining == SortByScoreDesc(SelectSeq(wines, NotSelected))
       IN SortByScoreDesc(Phase2(phase1, remaining, limit))

\* _diverse_selection cutting the result to limit items
_diverse_selectionTruncated(wines, limit, min_per_store) ==
  IF Len(wines) <= limit THEN SortByScoreDesc(wines)
  ELSE LET phase1 == Phase1(<<>>, StoreOrder(wines, {}), wines, min_per_store)
           ids == {phase1[i].id : i \in 1..Len(phase1)}
           NotSelected(w) == w.id \notin ids
           remaining == SortByScoreDesc(SelectSeq(wines, NotSelected))
           sorted == SortByScoreDesc(Phase2(phase1, remaining, limit))
       IN SubSeq(sorted, 1, Min(Max(limit, 0), Len(sorted)))

\* _diverse_selection filling from the remaining items as they came
_diverse_selectionFillInOrder(wines, limit, min_per_store) ==
  IF Len(wines) <= limit THEN SortByScoreDesc(wines)
  ELSE LET phase1 == Phase1(<<>>, StoreOrder(wines, {}), wines, min_per_store)
           ids == {phase1[i].id : i \in 1..Len(phase1)}
           NotSelected(w) == w.id \notin ids
           remaining == SelectSeq(wines, NotSelected)
       IN SortByScoreDesc(Phase2(phase1, remaining, limit))

\* _diverse_selection without the final sort
_diverse_selectionNoFinalSort(wines, limit, min_per_store) ==
  IF Len(wines) <= limit THEN SortByScoreDesc(wines)
  ELSE LET phase1 == Phase1(<<>>, StoreOrder(wines, {}), wines, min_per_store)
           ids == {phase1[i].id : i \in 1..Len(phase1)}
           NotSelected(w) == w.id \notin ids
           remaining == SortByScoreDesc(SelectSeq(wines, NotSelected))
       IN Phase2(phase1, remaining, limit)

_diverse_selection(wines, limit, min_per_store) ==
  IF Len(wines) <= limit THEN SortByScoreDesc(wines)
  ELSE LET phase1 == Phase1(<<>>, StoreOrder(wines, {}), wines, min_per_store)
           ids == {phase1[i].id : i \in 1..Len(phase1)}
           NotSelected(w) == w.id \notin ids
           remaining == SortByScoreDesc(SelectSeq(wines, NotSelected))
       IN SortByScoreDesc(Phase2(phase1, remaining, limit))

(***************************************************************************)
(* State.                                                                  *)
(*   wine_cache   the module-level dictionary of main.py                   *)
(*   cache_ready  the asyncio.Event (TRUE = set)                           *)
(*   now          time.time(), in seconds                                  *)
(*   ticks        how many times the clock has been advanced               *)
(*   pc           position of every coroutine: task 0 is _warmup_cache,    *)
(*                tasks 1..NumClients are request handlers                 *)
(*   req          the request a handler is serving                         *)
(*   wait_start   when the handler started waiting for cache_ready, kept    *)
(*                while it runs on from the wait to its response without   *)
(*                suspending (0: no wait, or suspended again in get_wines) *)
(*   job          the future of the fetch_wines_sync call a task has       *)
(*                submitted to the executor                                *)
(*   gw_ret       the list the task's get_wines call has just returned,    *)
(*                and via which return statement: "fresh" (line 144),      *)
(*                "loading" (150), "updated" (182), "error" (188, 189)     *)
(*   last_refresh history: the list and the time the last successful       *)
(*                refresh stored, whether get_wines has been called since, *)
(*                and the postal code that refresh was fetched for         *)
(*   call         a function exercised on its own: its name, arguments     *)
(*                and, once it has run, its result (PureSpec below)        *)
(***************************************************************************)
VARIABLES wine_cache, cache_ready, now, ticks, pc, req, wait_start, job,
          gw_ret, last_refresh, call

vars == <<wine_cache, cache_ready, now, ticks, pc, req, wait_start, job,
          gw_ret, last_refresh, call>>

WarmupTask == 0
Clients == 1..NumClients
Tasks == {WarmupTask} \cup Clients

RecommendMinPrice == 0
RecommendMaxPrice == 3000
SearchMaxPrice == 10000

NoRequest == [kind |-> "none"]
NoJob == [state |-> "none", wines |-> <<>>]
NoRet == [set |-> FALSE, wines |-> <<>>, via |-> "none"]
Ret(ws, via) == [set |-> TRUE, wines |-> ws, via |-> via]

\* postal_code: str = Query("46001"), also the default of get_wines, which
\* _warmup_cache relies on
DefaultPostalCode == "46001"

RecommendRequest(dish, method, meal_time, lang, limit) ==
  [kind |-> "recommend", dish |-> dish, cooking_method |-> method,
   meal_time |-> meal_time, lang |-> lang, limit |-> limit,
   postal_code |-> DefaultPostalCode]

SearchRequest(wine_type, limit) ==
  [kind |-> "search", query |-> NoneStr, wine_type |-> wine_type,
   region |-> NoneStr, store |-> "None", limit |-> limit,
   postal_code |-> DefaultPostalCode]

\* the requests the clients send
Requests ==
  {RecommendRequest("meat", "None", "None", "ru", DefaultLimit),
   RecommendRequest("soup", "None", "None", "ru", DefaultLimit),
   [SearchRequest("tinto", DefaultLimit) EXCEPT !.postal_code = "28001"]}

\* the postal_code argument of the get_wines call task t is in
PostalArg(t) ==
  IF t = WarmupTask THEN DefaultPostalCode ELSE req[t].postal_code

\* the module's globals once main.py is imported, before the startup event
ModuleLoaded ==
  /\ wine_cache = [wines |-> <<>>, last_update |-> 0, is_loading |-> FALSE]
  /\ cache_ready = FALSE
  /\ now = 1
  /\ ticks = 0
  /\ pc = [t \in Tasks |-> "idle"]
  /\ req = [t \in Tasks |-> NoRequest]
  /\ wait_start = [t \in Tasks |-> 0]
  /\ job = [t \in Tasks |-> NoJob]
  /\ gw_ret = [t \in Tasks |-> NoRet]
  /\ last_refresh = [wines |-> <<>>, at |-> 0, read |-> FALSE,
                     postal_code |-> "None"]

\* no function is being exercised on its own
NoCall == [fn |-> "none"]

Init ==
  /\ ModuleLoaded
  /\ call = NoCall

\* no coroutine is in the middle of a segment: the event loop is free to
\* run another one
LoopFree == \A t \in Tasks : pc[t] # "got_wines"

(***************************************************************************)
(* get_wines up to its first suspension, called by task t at time at:      *)
(* a fresh cache or a fetch in flight make it return the cached list at    *)
(* once, otherwise it sets is_loading, submits fetch_wines_sync to the     *)
(* executor and suspends on the future.                                    *)
(***************************************************************************)
\* IsFresh with the 30 minutes of the comment taken for the limit
IsFreshMinutes(cache, at) ==
  /\ cache.wines # <<>>
  /\ TruthyNum(cache.last_update)
  /\ at - cache.last_update < 30

\* IsFresh with the boundary second still counted as fresh
IsFreshInclusive(cache, at) ==
  /\ cache.wines # <<>>
  /\ TruthyNum(cache.last_update)
  /\ at - cache.last_update <= TTL

IsFresh(cache, at) ==
  /\ cache.wines # <<>>
  /\ TruthyNum(cache.last_update)
  /\ at - cache.last_update < TTL

\* GetWinesEntry returning an empty list while a fetch is in flight
GetWinesEntryLoadingEmpty(t, at) ==
  /\ last_refresh' = [last_refresh EXCEPT !.read = TRUE]
  /\ IF IsFresh(wine_cache, at)
     THEN /\ pc' = [pc EXCEPT ![t] = "got_wines"]
          /\ gw_ret' = [gw_ret EXCEPT ![t] = Ret(wine_cache.wines, "fresh")]
          /\ UNCHANGED <<wine_cache, job>>
     ELSE IF wine_cache.is_loading
     THEN /\ pc' = [pc EXCEPT ![t] = "got_wines"]
          /\ gw_ret' = [gw_ret EXCEPT ![t] = Ret(<<>>, "loading")]
          /\ UNCHANGED <<wine_cache, job>>
     ELSE /\ wine_cache' = [wine_cache EXCEPT !.is_loading = TRUE]
          /\ job' = [job EXCEPT ![t] = [state |-> "running", wines |-> <<>>]]
          /\ pc' = [pc EXCEPT ![t] = "await_fetch"]
          /\ UNCHANGED gw_ret

\* GetWinesEntry without the is_loading test of lines 148-150
GetWinesEntryNoLoadingCheck(t, at) ==
  /\ last_refresh' = [last_refresh EXCEPT !.read = TRUE]
  /\ IF IsFresh(wine_cache, at)
     THEN /\ pc' = [pc EXCEPT ![t] = "got_wines"]
          /\ gw_ret' = [gw_ret EXCEPT ![t] = Ret(wine_cache.wines, "fresh")]
          /\ UNCHANGED <<wine_cache, job>>
     ELSE /\ wine_cache' = [wine_cache EXCEPT !.is_loading = TRUE]
          /\ job' = [job EXCEPT ![t] = [state |-> "running", wines |-> <<>>]]
          /\ pc' = [pc EXCEPT ![t] = "await_fetch"]
          /\ UNCHANGED gw_ret

GetWinesEntry(t, at) ==
  /\ last_refresh' = [last_refresh EXCEPT !.read = TRUE]
  /\ IF IsFresh(wine_cache, at)
     THEN /\ pc' = [pc EXCEPT ![t] = "got_wines"]
          /\ gw_ret' = [gw_ret EXCEPT ![t] = Ret(wine_cache.wines, "fresh")]
          /\ UNCHANGED <<wine_cache, job>>
     ELSE IF wine_cache.is_loading
     THEN /\ pc' = [pc EXCEPT ![t] = "got_wines"]
          /\ gw_ret' = [gw_ret EXCEPT ![t] = Ret(wine_cache.wines, "loading")]
          /\ UNCHANGED <<wine_cache, job>>
     ELSE /\ wine_cache' = [wine_cache EXCEPT !.is_loading = TRUE]
          /\ job' = [job EXCEPT ![t] = [state |-> "running", wines |-> <<>>]]
          /\ pc' = [pc EXCEPT ![t] = "await_fetch"]
          /\ UNCHANGED gw_ret

\* GetWinesResume returning the list it found at entry instead of the new one
GetWinesResumeReturnsOld(t) ==
  /\ pc[t] = "await_fetch"
  /\ job[t].state \in {"return", "raise"}
  /\ LoopFree
  /\ IF job[t].state = "return"
     THEN LET wines == ToResponses(job[t].wines)
          IN /\ wine_cache' = [wines |-> wines, last_update |-> now,
                               is_loading |-> FALSE]
             /\ gw_ret' = [gw_ret EXCEPT ![t] = Ret(wine_cache.wines, "updated")]
             /\ last_refresh' = [wines |-> wines, at |-> now, read |-> FALSE,
                                 postal_code |-> PostalArg(t)]
     ELSE /\ wine_cache' = [wine_cache EXCEPT !.is_loading = FALSE]
          /\ gw_ret' = [gw_ret EXCEPT ![t] =
                          Ret(IF wine_cache.wines # <<>>
                              THEN wine_cache.wines ELSE <<>>, "error")]
          /\ UNCHANGED last_refresh
  /\ job' = [job EXCEPT ![t] = NoJob]
  /\ pc' = [pc EXCEPT ![t] = "got_wines"]
  /\ UNCHANGED <<call, cache_ready, now, ticks, req, wait_start>>

\* GetWinesResume storing the new list without the assignment of line 179
GetWinesResumeKeepsTime(t) ==
  /\ pc[t] = "await_fetch"
  /\ job[t].state \in {"return", "raise"}
  /\ LoopFree
  /\ IF job[t].state = "return"
     THEN LET wines == ToResponses(job[t].wines)
          IN /\ wine_cache' = [wine_cache EXCEPT !.wines = wines,
                                                 !.is_loading = FALSE]
             /\ gw_ret' = [gw_ret EXCEPT ![t] = Ret(wines, "updated")]
             /\ last_refresh' = [wines |-> wines, at |-> now, read |-> FALSE,
                                 postal_code |-> PostalArg(t)]
     ELSE /\ wine_cache' = [wine_cache EXCEPT !.is_loading = FALSE]
          /\ gw_ret' = [gw_ret EXCEPT ![t] =
                          Ret(IF wine_cache.wines # <<>>
                              THEN wine_cache.wines ELSE <<>>, "error")]
          /\ UNCHANGED last_refresh
  /\ job' = [job EXCEPT ![t] = NoJob]
  /\ pc' = [pc EXCEPT ![t] = "got_wines"]
  /\ UNCHANGED <<call, cache_ready, now, ticks, req, wait_start>>

\* GetWinesResume with an except branch that empties the cache
GetWinesResumeDropsOnError(t) ==
  /\ pc[t] = "await_fetch"
  /\ job[t].state \in {"return", "raise"}
  /\ LoopFree
  /\ IF job[t].state = "return"
     THEN LET wines == ToResponses(job[t].wines)
          IN /\ wine_cache' = [wines |-> wines, last_update |-> now,
                               is_loading |-> FALSE]
             /\ gw_ret' = [gw_ret EXCEPT ![t] = Ret(wines, "updated")]
             /\ last_refresh' = [wines |-> wines, at |-> now, read |-> FALSE,
                                 postal_code |-> PostalArg(t)]
     ELSE /\ wine_cache' = [wine_cache EXCEPT !.wines = <<>>,
                                           !.is_loading = FALSE]
          /\ gw_ret' = [gw_ret EXCEPT ![t] =
                          Ret(IF wine_cache.wines # <<>>
                              THEN wine_cache.wines ELSE <<>>, "error")]
          /\ UNCHANGED last_refresh
  /\ job' = [job EXCEPT ![t] = NoJob]
  /\ pc' = [pc EXCEPT ![t] = "got_wines"]
  /\ UNCHANGED <<call, cache_ready, now, ticks, req, wait_start>>

\* GetWinesResume forgetting the timestamp when the fetch raised
GetWinesResumeClearsTime(t) ==
  /\ pc[t] = "await_fetch"
  /\ job[t].state \in {"return", "raise"}
  /\ LoopFree
  /\ IF job[t].state = "return"
     THEN LET wines == ToResponses(job[t].wines)
          IN /\ wine_cache' = [wines |-> wines, last_update |-> now,
                               is_loading |-> FALSE]
             /\ gw_ret' = [gw_ret EXCEPT ![t] = Ret(wines, "updated")]
             /\ last_refresh' = [wines |-> wines, at |-> now, read |-> FALSE,
                                 postal_code |-> PostalArg(t)]
     ELSE /\ wine_cache' = [wine_cache EXCEPT !.is_loading = FALSE,
                                          !.last_update = 0]
          /\ gw_ret' = [gw_ret EXCEPT ![t] =
                          Ret(IF wine_cache.wines # <<>>
                              THEN wine_cache.wines ELSE <<>>, "error")]
          /\ UNCHANGED last_refresh
  /\ job' = [job EXCEPT ![t] = NoJob]
  /\ pc' = [pc EXCEPT ![t] = "got_wines"]
  /\ UNCHANGED <<call, cache_ready, now, ticks, req, wait_start>>

(***************************************************************************)
(* get_wines from the completion of the future to its return: the cache is *)
(* replaced on success, kept on an exception; finally is_loading is reset. *)
(***************************************************************************)
GetWinesResume(t) ==
  /\ pc[t] = "await_fetch"
  /\ job[t].state \in {"return", "raise"}
  /\ LoopFree
  /\ IF job[t].state = "return"
     THEN LET wines == ToResponses(job[t].wines)
          IN /\ wine_cache' = [wines |-> wines, last_update |-> now,
                               is_loading |-> FALSE]
             /\ gw_ret' = [gw_ret EXCEPT ![t] = Ret(wines, "updated")]
             /\ last_refresh' = [wines |-> wines, at |-> now, read |-> FALSE,
                                 postal_code |-> PostalArg(t)]
     ELSE /\ wine_cache' = [wine_cache EXCEPT !.is_loading = FALSE]
          /\ gw_ret' = [gw_ret EXCEPT ![t] =
                          Ret(IF wine_cache.wines # <<>>
                              THEN wine_cache.wines ELSE <<>>, "error")]
          /\ UNCHANGED last_refresh
  /\ job' = [job EXCEPT ![t] = NoJob]
  /\ pc' = [pc EXCEPT ![t] = "got_wines"]
  /\ UNCHANGED <<call, cache_ready, now, ticks, req, wait_start>>

(***************************************************************************)
(* The executor thread that runs fetch_wines_sync for task t: the          *)
(* endpoints behave as one of the scenarios; the future gets the result or *)
(* the exception, or the thread stays in a call that never returns.        *)
(***************************************************************************)
\* what fetch_wines_sync does in each scenario
FetchResult == [env \in Scenarios |-> FetchWinesSync(env)]

WorkerRun(t) ==
  /\ job[t].state = "running"
  /\ \E env \in Scenarios :
        job' = [job EXCEPT ![t] = [state |-> FetchResult[env].kind,
                                   wines |-> FetchResult[env].wines]]
  /\ UNCHANGED <<call, wine_cache, cache_ready, now, ticks, pc, req, wait_start,
                 gw_ret, last_refresh>>

(***************************************************************************)
(* startup_warmup and _warmup_cache.                                       *)
(***************************************************************************)
startup_warmup ==
  /\ pc[WarmupTask] = "idle"
  /\ pc' = [pc EXCEPT ![WarmupTask] = "created"]
  /\ UNCHANGED <<call, wine_cache, cache_ready, now, ticks, req, wait_start, job,
                 gw_ret, last_refresh>>

\* _warmup_cache up to the suspension of get_wines("46001")
WarmupStart ==
  /\ pc[WarmupTask] = "created"
  /\ LoopFree
  /\ GetWinesEntry(WarmupTask, now)
  /\ UNCHANGED <<call, cache_ready, now, ticks, req, wait_start>>

\* WarmupFinish with cache_ready set only when the cache has data
WarmupFinishOnData ==
  /\ pc[WarmupTask] = "got_wines"
  /\ cache_ready' = (wine_cache.wines # <<>>)
  /\ pc' = [pc EXCEPT ![WarmupTask] = "done"]
  /\ gw_ret' = [gw_ret EXCEPT ![WarmupTask] = NoRet]
  /\ UNCHANGED <<call, wine_cache, now, ticks, req, wait_start, job, last_refresh>>

\* _warmup_cache from the return of get_wines: finally cache_ready.set()
WarmupFinish ==
  /\ pc[WarmupTask] = "got_wines"
  /\ cache_ready' = TRUE
  /\ pc' = [pc EXCEPT ![WarmupTask] = "done"]
  /\ gw_ret' = [gw_ret EXCEPT ![WarmupTask] = NoRet]
  /\ UNCHANGED <<call, wine_cache, now, ticks, req, wait_start, job, last_refresh>>

\* step 1 of recommend_wines: sommelier.get_recommendations for each request
Recommendations ==
  [q \in {r \in Requests : r.kind = "recommend"} |->
     GetRecommendations(q.dish, q.cooking_method, q.meal_time)]

(***************************************************************************)
(* Request handlers.  The server accepts requests once the startup event   *)
(* has run and the warm-up task has had its first turn.                    *)
(***************************************************************************)
Serving == pc[WarmupTask] \notin {"idle", "created"}

\* the handler from the end of the wait to the first suspension of
\* get_wines; HTTPException(400) when the sommelier has no recommendation
AfterWait(t, q) ==
  IF /\ q.kind = "recommend"
     /\ Recommendations[q] = <<>>
  THEN /\ pc' = [pc EXCEPT ![t] = "idle"]
       /\ req' = [req EXCEPT ![t] = NoRequest]
       /\ UNCHANGED <<wine_cache, job, gw_ret, last_refresh>>
  ELSE /\ GetWinesEntry(t, now)
       /\ req' = [req EXCEPT ![t] = q]

\* recommend_wines / search_wines arriving while cache_ready is clear: the
\* handler suspends in `await asyncio.wait_for(cache_ready.wait(), 90)`
ArriveCold(t, q) ==
  /\ pc[t] = "idle"
  /\ Serving
  /\ LoopFree
  /\ ~cache_ready
  /\ ticks < MaxTicks
  /\ req' = [req EXCEPT ![t] = q]
  /\ wait_start' = [wait_start EXCEPT ![t] = now]
  /\ pc' = [pc EXCEPT ![t] = "wait_ready"]
  /\ UNCHANGED <<call, wine_cache, cache_ready, now, ticks, job, gw_ret, last_refresh>>

\* recommend_wines / search_wines arriving while cache_ready is set: the
\* wait returns at once and the handler runs on to get_wines
ArriveReady(t, q) ==
  /\ pc[t] = "idle"
  /\ Serving
  /\ LoopFree
  /\ cache_ready
  /\ AfterWait(t, q)
  /\ UNCHANGED <<call, cache_ready, now, ticks, wait_start>>

\* Proceed with the handler resumed only when the full timeout has passed
ProceedAtDeadline(t) ==
  /\ pc[t] = "wait_ready"
  /\ cache_ready
  /\ now - wait_start[t] >= ReadyTimeout
  /\ LoopFree
  /\ AfterWait(t, req[t])
  /\ wait_start' = [wait_start EXCEPT ![t] = IF pc'[t] = "got_wines" THEN @ ELSE 0]
  /\ UNCHANGED <<call, cache_ready, now, ticks>>

\* cache_ready is set during the wait: cache_ready.wait() returns
Proceed(t) ==
  /\ pc[t] = "wait_ready"
  /\ cache_ready
  /\ LoopFree
  /\ AfterWait(t, req[t])
  /\ wait_start' = [wait_start EXCEPT ![t] = IF pc'[t] = "got_wines" THEN @ ELSE 0]
  /\ UNCHANGED <<call, cache_ready, now, ticks>>

\* Timeout with asyncio.TimeoutError left uncaught: the request is aborted
TimeoutFails(t) ==
  /\ pc[t] = "wait_ready"
  /\ ~cache_ready
  /\ now - wait_start[t] >= ReadyTimeout
  /\ LoopFree
  /\ pc' = [pc EXCEPT ![t] = "idle"]
  /\ req' = [req EXCEPT ![t] = NoRequest]
  /\ wait_start' = [wait_start EXCEPT ![t] = 0]
  /\ UNCHANGED <<call, wine_cache, cache_ready, now, ticks, job, gw_ret, last_refresh>>

\* asyncio.TimeoutError: ReadyTimeout seconds have passed since wait_start
Timeout(t) ==
  /\ pc[t] = "wait_ready"
  /\ ~cache_ready
  /\ now - wait_start[t] >= ReadyTimeout
  /\ LoopFree
  /\ AfterWait(t, req[t])
  /\ wait_start' = [wait_start EXCEPT ![t] = IF pc'[t] = "got_wines" THEN @ ELSE 0]
  /\ UNCHANGED <<call, cache_ready, now, ticks>>

PriceOf(w) == IF TruthyNum(w.discount_price) THEN w.discount_price ELSE w.price

\* step 1 of recommend_wines
PrimaryRec(q) == Recommendations[q][1]

\* steps 3 and 4 of recommend_wines
RecommendFilter(w, q) ==
  /\ w.wine_type = PrimaryRec(q).wine_type
  /\ RecommendMinPrice <= PriceOf(w)
  /\ PriceOf(w) <= RecommendMaxPrice

\* step 6 of recommend_wines: the loop assigns match_score and expert_note
\* to the objects of the list get_wines returned, which are the objects
\* the cache holds
AddScores(wines, q) ==
  [i \in 1..Len(wines) |->
     IF RecommendFilter(wines[i], q)
     THEN [wines[i] EXCEPT !.match_score = score_wine(wines[i], PrimaryRec(q)),
                           !.expert_note = get_expert_note(wines[i], q.lang)]
     ELSE wines[i]]

\* the RecommendationResponse for request q on the list all_wines
RecommendationResponse(all_wines, last_update, q) ==
  LET Filtered(w) == RecommendFilter(w, q)
      filtered == SelectSeq(AddScores(all_wines, q), Filtered)
  IN [total |-> Len(filtered),
      expert_summary |-> translate_summary(PrimaryRec(q).description, q.lang),
      recommended_style |-> PrimaryRec(q).style,
      wines |-> _diverse_selection(filtered, q.limit, DefaultMinPerStore),
      data_source |-> IF TruthyNum(last_update) THEN "live" ELSE "cache"]

\* recommend_wines from the return of get_wines to the response
RecommendRespond(t) ==
  /\ pc[t] = "got_wines"
  /\ req[t].kind = "recommend"
  /\ wine_cache' = [wine_cache EXCEPT !.wines = AddScores(wine_cache.wines, req[t])]
  /\ pc' = [pc EXCEPT ![t] = "idle"]
  /\ req' = [req EXCEPT ![t] = NoRequest]
  /\ gw_ret' = [gw_ret EXCEPT ![t] = NoRet]
  /\ wait_start' = [wait_start EXCEPT ![t] = 0]
  /\ UNCHANGED <<call, cache_ready, now, ticks, job, last_refresh>>

\* the response of search_wines for request q on the list all_wines
SearchResponse(all_wines, q) ==
  LET Keep(w) ==
        /\ TruthyStr(q.query) =>
             \/ In(Lower(q.query), Lower(w.name))
             \/ In(Lower(q.query), Lower(w.brand))
        /\ q.wine_type # "None" => w.wine_type = q.wine_type
        /\ TruthyStr(q.region) =>
             TruthyStr(w.region) /\ In(Lower(q.region), Lower(w.region))
        /\ q.store # "None" => w.store = q.store
        /\ 0 <= PriceOf(w) /\ PriceOf(w) <= SearchMaxPrice
      filtered == SelectSeq(all_wines, Keep)
      sorted == SortByKeys(filtered, [i \in 1..Len(filtered) |-> PriceOf(filtered[i])])
  IN [total |-> Len(sorted),
      wines |-> SubSeq(sorted, 1, Min(q.limit, Len(sorted)))]

\* search_wines from the return of get_wines to the response: the filters
\* and the sort work on new lists, the cache is not written
SearchRespond(t) ==
  /\ pc[t] = "got_wines"
  /\ req[t].kind = "search"
  /\ pc' = [pc EXCEPT ![t] = "idle"]
  /\ req' = [req EXCEPT ![t] = NoRequest]
  /\ gw_ret' = [gw_ret EXCEPT ![t] = NoRet]
  /\ wait_start' = [wait_start EXCEPT ![t] = 0]
  /\ UNCHANGED <<call, wine_cache, cache_ready, now, ticks, job, last_refresh>>

\* GET /health: what the handler reports in the current state
health ==
  [status |-> "ok",
   cache_size |-> Len(wine_cache.wines),
   cache_age_seconds |-> IF TruthyNum(wine_cache.last_update)
                         THEN now - wine_cache.last_update ELSE -1,
   is_loading |-> wine_cache.is_loading]

(***************************************************************************)
(* The clock.  It advances to one of the instants at which a time test of  *)
(* the program changes its value, or to the second before it: the expiry   *)
(* of the cache entry and the deadline of a handler waiting for            *)
(* cache_ready (the deadline itself only).  The number of advances is      *)
(* bounded, except that the deadline of a waiting handler is always        *)
(* reached.                                                                *)
(***************************************************************************)
Expiries ==
  IF TruthyNum(wine_cache.last_update)
  THEN {wine_cache.last_update + TTL - 1, wine_cache.last_update + TTL}
  ELSE {}

Waiting == {t \in Clients : pc[t] = "wait_ready" /\ ~cache_ready}

Deadlines == {wait_start[t] + ReadyTimeout : t \in Waiting}

Instants ==
  IF ticks < MaxTicks
  THEN Expiries \cup Deadlines
  ELSE Deadlines

Tick(at) ==
  /\ at \in Instants
  /\ at > now
  /\ now' = at
  /\ ticks' = ticks + 1
  /\ UNCHANGED <<call, wine_cache, cache_ready, pc, req, wait_start, job, gw_ret,
                 last_refresh>>

Next ==
  \/ startup_warmup
  \/ WarmupStart
  \/ WarmupFinish
  \/ \E t \in Tasks : WorkerRun(t)
  \/ \E t \in Tasks : GetWinesResume(t)
  \/ \E t \in Clients, q \in Requests : ArriveCold(t, q)
  \/ \E t \in Clients, q \in Requests : ArriveReady(t, q)
  \/ \E t \in Clients : Proceed(t)
  \/ \E t \in Clients : Timeout(t)
  \/ \E t \in Clients : RecommendRespond(t)
  \/ \E t \in Clients : SearchRespond(t)
  \/ \E at \in Instants : Tick(at)

Spec == Init /\ [][Next]_vars

(***************************************************************************)
(* Scheduling.  The executor runs the submitted job (there is at most one, *)
(* C1); the event loop runs every ready coroutine in turn: a continuation  *)
(* that is ready again and again gets its turn, hence strong fairness for  *)
(* the steps that wait for the loop to be free; a coroutine that holds the *)
(* loop runs on to its next suspension; time reaches the deadline of a     *)
(* waiting handler.                                                        *)
(***************************************************************************)
TickToDeadline == \E at \in Deadlines : Tick(at)

ExecutorRuns == \E t \in Tasks : WorkerRun(t)

FutureResumes == \E t \in Tasks : GetWinesResume(t)

HandlerResponds == \E t \in Clients : RecommendRespond(t) \/ SearchRespond(t)

FairSpec ==
  /\ Spec
  /\ WF_vars(startup_warmup)
  /\ WF_vars(WarmupStart)
  /\ WF_vars(WarmupFinish)
  /\ WF_vars(TickToDeadline)
  /\ WF_vars(ExecutorRuns)
  /\ SF_vars(FutureResumes)
  /\ WF_vars(HandlerResponds)
  /\ \A t \in Clients : SF_vars(Proceed(t) \/ Timeout(t))

(***************************************************************************)
(* The functions exercised on their own: a call starts with arguments      *)
(* drawn from the sets below and one step runs the function on them.       *)
(***************************************************************************)
Ran(c) == "out" \in DOMAIN c

ItemsOfTable(recs) == {recs[i] : i \in 1..Len(recs)}

\* one endpoint failing for one query in every way, besides Scenarios
FetchInputs ==
  Scenarios
  \cup {OneAnswers(Stores[i], q, resp) :
          i \in 1..Len(Stores), q \in Queries, resp \in Responses \ {"ok"}}

SearchAllCalls ==
  {[fn |-> "search_all", q |-> q, env |-> env] :
     q \in Queries, env \in FetchInputs}

FetchCalls ==
  {[fn |-> "fetch_wines_sync", env |-> env] : env \in FetchInputs}

RunSearchAll ==
  /\ call.fn = "search_all"
  /\ ~Ran(call)
  /\ call' = [fn |-> call.fn, q |-> call.q, env |-> call.env,
              out |-> SearchAll(call.q, call.env)]
  /\ UNCHANGED <<wine_cache, cache_ready, now, ticks, pc, req, wait_start,
                 job, gw_ret, last_refresh>>

RunFetchWinesSync ==
  /\ call.fn = "fetch_wines_sync"
  /\ ~Ran(call)
  /\ call' = [fn |-> call.fn, env |-> call.env,
              out |-> FetchWinesSync(call.env)]
  /\ UNCHANGED <<wine_cache, cache_ready, now, ticks, pc, req, wait_start,
                 job, gw_ret, last_refresh>>

\* score_wine: the wines that differ in what it reads (name, region,
\* discount_price), against every entry of the pairing tables
ScoreWines ==
  {[WineResponse(wC1) EXCEPT !.name = n, !.region = r, !.discount_price = d,
                             !.match_score = m] :
     n \in {nameC1, nameC2, nameM1, nameCava, nameRosado},
     r \in {NoneStr, <<>>, sRioja, sRueda, sPenedes, sRiojaNavarra},
     d \in {NoneNum, 0, 400},
     m \in {NoneNum, BaseScore + RegionBonus + GrapeBonus}}

ScoreRecs ==
  ItemsOfTable(PAIRING_MATRIX("fish", "grilled"))
  \cup ItemsOfTable(PAIRING_MATRIX("meat", "grilled"))
  \cup ItemsOfTable(DEFAULT_RECOMMENDATIONS("fish"))
  \cup ItemsOfTable(DEFAULT_RECOMMENDATIONS("meat"))
  \cup {AperitivoRec}

ScoreCalls ==
  {[fn |-> "score_wine", wine |-> w, primary_rec |-> r] :
     w \in ScoreWines, r \in ScoreRecs}

RunScoreWine ==
  /\ call.fn = "score_wine"
  /\ ~Ran(call)
  /\ call' = [fn |-> call.fn, wine |-> call.wine,
              primary_rec |-> call.primary_rec,
              out |-> score_wine(call.wine, call.primary_rec)]
  /\ UNCHANGED <<wine_cache, cache_ready, now, ticks, pc, req, wait_start,
                 job, gw_ret, last_refresh>>

\* _diverse_selection: lists of scored wines with distinct ids (the cache
\* holds one item per id), every position from any of the stores below
\* with any of the scores below
SelIds == <<"w1", "w2", "w3", "w4", "w5", "w6">>
SelStores == {"consum", "mercadona", "dia"}
SelScores == {BaseScore, BaseScore + RegionBonus}

SelWine(i, store, score) ==
  [WineResponse(wC2) EXCEPT !.id = SelIds[i], !.url = SelIds[i],
                            !.store = store, !.match_score = score]

SelLists ==
  UNION {{[i \in 1..n |-> SelWine(i, st[i], sc[i])] :
            st \in [1..n -> SelStores], sc \in [1..n -> SelScores]} :
         n \in 0..MaxLen}

\* three items of one store scored 90, 85, 80 and one of another scored 40
FillExample ==
  <<SelWine(1, "consum", 90), SelWine(2, "consum", 85),
    SelWine(3, "consum", 80), SelWine(4, "dia", 40)>>

\* lists in which an id occurs more than once: every position holds
\* product 1 (of consum) or product 2 (of dia), with any of the scores
SelDupStores == <<"consum", "dia">>
SelDupLists ==
  UNION {{[i \in 1..n |-> SelWine(id[i], SelDupStores[id[i]], sc[i])] :
            id \in ([1..n -> {1, 2}] \ [1..n -> {1}]) \ [1..n -> {2}],
            sc \in [1..n -> SelScores]} :
         n \in 3..MaxLen}
  \cup {[i \in 1..n |-> SelWine(1, "consum", BaseScore)] : n \in 2..MaxLen}

SelCalls ==
  {[fn |-> "_diverse_selection", wines |-> ws, limit |-> l,
    min_per_store |-> m] :
     ws \in SelLists \cup SelDupLists,
     l \in (-1)..MaxLimit, m \in 1..MaxMinPerStore}
  \cup {[fn |-> "_diverse_selection", wines |-> FillExample, limit |-> 3,
         min_per_store |-> 1]}

RunDiverseSelection ==
  /\ call.fn = "_diverse_selection"
  /\ ~Ran(call)
  /\ call' = [fn |-> call.fn, wines |-> call.wines, limit |-> call.limit,
              min_per_store |-> call.min_per_store,
              out |-> _diverse_selection(call.wines, call.limit,
                                         call.min_per_store)]
  /\ UNCHANGED <<wine_cache, cache_ready, now, ticks, pc, req, wait_start,
                 job, gw_ret, last_refresh>>

\* the record parsers: every combination of the price fields below
RawPrices == {NoneNum, 0, 750, 900, 1000, 1200}
Badges ==
  {[present |-> FALSE, pct |-> NoneNum], [present |-> TRUE, pct |-> NoneNum],
   [present |-> TRUE, pct |-> 25], [present |-> TRUE, pct |-> 30]}
NoBadge == [present |-> FALSE, pct |-> NoneNum]
Parsers == {"ConsumParser._parse_product", "MercadonaParser._parse_hit",
            "MasymasParser._parse_product", "DIAParser._parse_card"}

ParseCalls ==
  {[fn |-> f, price |-> a, other |-> b, badge |-> g] :
     f \in Parsers, a \in RawPrices, b \in RawPrices, g \in Badges}

\* only the DIA card has a badge
ParseInputs ==
  {c \in ParseCalls : c.fn # "DIAParser._parse_card" => c.badge = NoBadge}

RunParser ==
  /\ call.fn \in Parsers
  /\ ~Ran(call)
  /\ call' =
       [fn |-> call.fn, price |-> call.price, other |-> call.other,
        badge |-> call.badge,
        out |-> CASE call.fn = "ConsumParser._parse_product" ->
                       ConsumParseProduct(call.price, call.other)
                  [] call.fn = "MercadonaParser._parse_hit" ->
                       MercadonaParseHit(call.price, call.other)
                  [] call.fn = "MasymasParser._parse_product" ->
                       MasymasParseProduct(call.price, call.other)
                  [] OTHER -> DIAParseCard(call.price, call.other, call.badge)]
  /\ UNCHANGED <<wine_cache, cache_ready, now, ticks, pc, req, wait_start,
                 job, gw_ret, last_refresh>>

\* the localisation lookups: the descriptions of the pairing tables and a
\* text without translations, in the five languages and in one more
LocalizeTexts == SUMMARY_KEYS \cup {"Wine of the house"}
LocalizeLangs == Langs \cup {"fr"}
Lookups == {"translate_summary", "translate"}

LocalizeCalls ==
  {[fn |-> f, text |-> t, lang |-> l] :
     f \in Lookups, t \in LocalizeTexts, l \in LocalizeLangs}

RunLocalize ==
  /\ call.fn \in Lookups
  /\ ~Ran(call)
  /\ call' = [fn |-> call.fn, text |-> call.text, lang |-> call.lang,
              out |-> IF call.fn = "translate"
                      THEN translate(call.text, call.lang)
                      ELSE translate_summary(call.text, call.lang)]
  /\ UNCHANGED <<wine_cache, cache_ready, now, ticks, pc, req, wait_start,
                 job, gw_ret, last_refresh>>

\* sequences of get_recommendations calls on one engine
RecArgs ==
  {[dish |-> k[1], cooking_method |-> k[2], meal_time |-> mt, lang |-> l,
    max_results |-> mr] :
     k \in {<<"fish", "grilled">>, <<"fish", "None">>, <<"meat", "grilled">>,
            <<"soup", "None">>},
     mt \in {"None", "lunch", "aperitivo", "digestivo"},
     l \in {"en", "ru"}, mr \in {1, 3}}

RecCalls ==
  {[fn |-> "get_recommendations", tables |-> ClassTables, pending |-> as,
    done |-> <<>>, results |-> <<>>] :
     as \in UNION {[1..n -> RecArgs] : n \in 1..MaxCalls}}

\* the next call of the sequence
RunGetRecommendations ==
  /\ call.fn = "get_recommendations"
  /\ call.pending # <<>>
  /\ LET r == get_recommendations(call.tables, Head(call.pending))
     IN call' = [fn |-> call.fn, tables |-> r.tables,
                 pending |-> Tail(call.pending),
                 done |-> Append(call.done, Head(call.pending)),
                 results |-> Append(call.results, r.result)]
  /\ UNCHANGED <<wine_cache, cache_ready, now, ticks, pc, req, wait_start,
                 job, gw_ret, last_refresh>>

PureInit ==
  /\ ModuleLoaded
  /\ \/ call \in SearchAllCalls
     \/ call \in FetchCalls
     \/ call \in ScoreCalls
     \/ call \in SelCalls
     \/ call \in ParseInputs
     \/ call \in LocalizeCalls
     \/ call \in RecCalls

PureNext ==
  \/ RunSearchAll
  \/ RunFetchWinesSync
  \/ RunScoreWine
  \/ RunDiverseSelection
  \/ RunParser
  \/ RunLocalize
  \/ RunGetRecommendations

PureSpec == PureInit /\ [][PureNext]_vars

(***************************************************************************)
(* Vocabulary of the properties.                                           *)
(***************************************************************************)
\* the tasks whose fetch_wines_sync call is with the executor
InFlight(jobs) == {t \in Tasks : jobs[t].state # "none"}

\* this step is the start of a get_wines call by task t
EntersGetWines(t) ==
  /\ pc[t] \in {"idle", "created", "wait_ready"}
  /\ pc'[t] \in {"await_fetch", "got_wines"}

\* this step is the return of a get_wines call of task t that had suspended
ResumesGetWines(t) == pc[t] = "await_fetch" /\ pc'[t] = "got_wines"

Age == now - wine_cache.last_update

\* the cache holds items, and they are stale
StaleNonEmpty ==
  /\ wine_cache.wines # <<>>
  /\ TruthyNum(wine_cache.last_update)
  /\ Age >= TTL

\* a list as get_wines stores it: no score, no note
Unscored(ws) ==
  [i \in 1..Len(ws) |-> [ws[i] EXCEPT !.match_score = NoneNum,
                                      !.expert_note = NoneNote]]

(***************************************************************************)
(* C1.  At most one fetch_wines_sync call dispatched by get_wines is in    *)
(* flight, and is_loading is set while it is: of several get_wines calls   *)
(* that find the cache stale or empty, one dispatches and the others       *)
(* dispatch nothing.                                                       *)
(***************************************************************************)
C1_SingleFlight ==
  /\ Cardinality(InFlight(job)) <= 1
  /\ InFlight(job) # {} => wine_cache.is_loading

\* a fetch is running while another task's get_wines found the cache not
\* fresh and returned without dispatching
C1_Witness ==
  \E t1, t2 \in Tasks :
     /\ t1 # t2
     /\ job[t1].state = "running"
     /\ pc[t2] = "got_wines" /\ gw_ret[t2].via = "loading"
     /\ ~IsFresh(wine_cache, now)

C3_NeverEmptied ==
  [][wine_cache.wines # <<>> => wine_cache'.wines # <<>>]_vars

(***************************************************************************)
(* C4 as stated.  After a successful refresh at T, a get_wines call at T'  *)
(* with T' - T < TTL returns the list that refresh stored, unchanged, and  *)
(* dispatches no fetch, whether the stored list is empty or not.           *)
(***************************************************************************)
C4_FreshServedAlways ==
  [][\A t \in Tasks :
       (EntersGetWines(t) /\ TruthyNum(wine_cache.last_update) /\ Age < TTL)
         => /\ pc'[t] = "got_wines"
            /\ gw_ret'[t].wines = last_refresh.wines
            /\ job' = job]_vars

(***************************************************************************)
(* C4 amended.  After a successful refresh at T that stored a non-empty    *)
(* list, a get_wines call at T' with T' - T < TTL dispatches no fetch,     *)
(* leaves the cache as it is and returns the list that refresh stored:     *)
(* the same items in the same order, equal in every field but match_score  *)
(* and expert_note.                                                        *)
(***************************************************************************)
C4_FreshServed ==
  [][\A t \in Tasks :
       (/\ EntersGetWines(t)
        /\ TruthyNum(wine_cache.last_update)
        /\ Age < TTL
        /\ last_refresh.wines # <<>>)
         => /\ pc'[t] = "got_wines"
            /\ Unscored(gw_ret'[t].wines) = last_refresh.wines
            /\ job' = job
            /\ wine_cache' = wine_cache]_vars

\* a call has been served from the cache one second before it expires
C4_Witness ==
  \E t \in Tasks :
     /\ pc[t] = "got_wines" /\ gw_ret[t].via = "fresh"
     /\ Age = TTL - 1

(***************************************************************************)
(* C5.  After a successful refresh at T, the first get_wines call after it *)
(* that comes at T' with T' - T >= TTL dispatches a fetch, and that fetch  *)
(* is the only one in flight.                                              *)
(***************************************************************************)
C5_FirstStaleReadRefreshes ==
  [][\A t \in Tasks :
       (/\ EntersGetWines(t)
        /\ TruthyNum(wine_cache.last_update)
        /\ Age >= TTL
        /\ ~last_refresh.read)
         => /\ pc'[t] = "await_fetch"
            /\ InFlight(job) = {}
            /\ InFlight(job') = {t}
            /\ job'[t].state = "running"
            /\ wine_cache'.is_loading]_vars

\* a fetch has been dispatched at the very second the entry expired
C5_Witness ==
  \E t \in Tasks :
     /\ pc[t] = "await_fetch" /\ job[t].state = "running"
     /\ TruthyNum(wine_cache.last_update)
     /\ wine_cache.wines # <<>>
     /\ Age = TTL

(***************************************************************************)
(* C6.  Every item in the cache has the field values it had when the       *)
(* refresh stored it, match_score and expert_note included.                *)
(***************************************************************************)
C6_CachedItemsAsStored == wine_cache.wines = last_refresh.wines

(***************************************************************************)
(* C7.  The cached item set changes only by being replaced as a whole by   *)
(* the result of one fetch, in the step that also sets the timestamp; so   *)
(* in every state the items and the timestamp are those of one refresh:    *)
(* no state shows a part of a new list or a new list with an old time.     *)
(***************************************************************************)
C7_AtomicReplace ==
  /\ [][Unscored(wine_cache'.wines) # Unscored(wine_cache.wines)
          => \E t \in Tasks :
                /\ job[t].state = "return"
                /\ wine_cache' = [wines |-> ToResponses(job[t].wines),
                                  last_update |-> now,
                                  is_loading |-> FALSE]]_vars
  /\ [](/\ Unscored(wine_cache.wines) = last_refresh.wines
        /\ wine_cache.last_update = last_refresh.at
        /\ health.cache_size = Len(last_refresh.wines))

\* a later refresh has replaced the cached list and the timestamp, and the
\* call that ran it has the new list
C7_Witness ==
  /\ \E t \in Tasks : gw_ret[t].via = "updated"
  /\ wine_cache.last_update > 1
  /\ wine_cache.wines # <<>>

(***************************************************************************)
(* C8.  When the fetch raises, the return of get_wines leaves the cached   *)
(* list and the timestamp as they were, clears is_loading and returns the  *)
(* retained list (the empty list when there is none).                      *)
(***************************************************************************)
C8_FailureKeepsCache ==
  [][\A t \in Tasks :
       (pc[t] = "await_fetch" /\ job[t].state = "raise" /\ pc'[t] # pc[t])
         => /\ wine_cache'.wines = wine_cache.wines
            /\ wine_cache'.last_update = wine_cache.last_update
            /\ ~wine_cache'.is_loading
            /\ pc'[t] = "got_wines"
            /\ gw_ret'[t] = Ret(wine_cache.wines, "error")]_vars

\* get_wines has returned a retained, non-empty list after a failed fetch
C8_Witness ==
  \E t \in Tasks :
     /\ gw_ret[t].via = "error"
     /\ gw_ret[t].wines # <<>>
     /\ ~wine_cache.is_loading

(***************************************************************************)
(* C9.  Every refresh that begins finishes: is_loading does not stay set.  *)
(***************************************************************************)
C9_LoadingEnds == wine_cache.is_loading ~> ~wine_cache.is_loading

(***************************************************************************)
(* C10.  cache_ready is set exactly when the warm-up task has finished;    *)
(* the task finishes once its fetch has returned or raised; once set       *)
(* cache_ready stays set; and every handler waiting for it gets past the   *)
(* wait.                                                                   *)
(***************************************************************************)
C10_ReadySignal ==
  /\ [](cache_ready <=> pc[WarmupTask] = "done")
  /\ [][cache_ready => cache_ready']_vars
  /\ (job[WarmupTask].state \in {"return", "raise"}) ~> cache_ready
  /\ \A t \in Clients : (pc[t] = "wait_ready") ~> (pc[t] # "wait_ready")

\* the warm-up fetch has failed and cache_ready has been set while a handler
\* was waiting for it
C10_Witness ==
  /\ cache_ready
  /\ pc[WarmupTask] = "done"
  /\ wine_cache.last_update = 0
  /\ \E t \in Clients : pc[t] = "wait_ready"

(***************************************************************************)
(* Vocabulary of the handlers' wait.                                       *)
(***************************************************************************)
\* the request gets past step 1 of recommend_wines (search has no step 1)
Accepted(q) == q.kind = "search" \/ Recommendations[q] # <<>>

\* this step takes handler t out of the wait for cache_ready
LeavesWait(t) == pc[t] = "wait_ready" /\ pc'[t] # "wait_ready"

(***************************************************************************)
(* C11 as stated.  A handler that waits for cache_ready can resume as soon *)
(* as cache_ready is set, whatever time has passed; when it resumes on the *)
(* event its get_wines call returns the item set the cache holds without   *)
(* dispatching a fetch.                                                    *)
(***************************************************************************)
C11_ResumesWithWarmedSet ==
  /\ [](\A t \in Clients :
          (pc[t] = "wait_ready" /\ cache_ready /\ LoopFree) => ENABLED Proceed(t))
  /\ [][\A t \in Clients :
          (LeavesWait(t) /\ cache_ready /\ Accepted(req[t]))
            => /\ pc'[t] = "got_wines"
               /\ gw_ret'[t].wines = wine_cache.wines
               /\ job' = job]_vars

(***************************************************************************)
(* C11 amended.  A handler that waits for cache_ready can resume as soon   *)
(* as cache_ready is set, whatever time has passed.  When it resumes on    *)
(* the event and the cache is fresh (the warm-up stored a non-empty list   *)
(* less than TTL ago), get_wines returns the cached list, dispatches no    *)
(* fetch and leaves the cache as it is.  When the cache is not fresh (the  *)
(* warm-up failed or stored nothing) the call dispatches a fetch of its    *)
(* own and suspends on it, unless one is in flight: then it returns the    *)
(* list the cache holds.                                                   *)
(***************************************************************************)
C11_ResumesWithFreshSet ==
  /\ [](\A t \in Clients :
          (pc[t] = "wait_ready" /\ cache_ready /\ LoopFree) => ENABLED Proceed(t))
  /\ [][\A t \in Clients :
          (LeavesWait(t) /\ cache_ready /\ Accepted(req[t]))
            => IF IsFresh(wine_cache, now) \/ wine_cache.is_loading
               THEN /\ pc'[t] = "got_wines"
                    /\ gw_ret'[t].wines = wine_cache.wines
                    /\ job' = job
                    /\ wine_cache' = wine_cache
               ELSE /\ pc'[t] = "await_fetch"
                    /\ job'[t].state = "running"
                    /\ wine_cache'.is_loading]_vars

\* a handler that waited has resumed before its deadline and has the fresh
\* list the warm-up stored
C11_Witness ==
  \E t \in Clients :
     /\ pc[t] = "got_wines" /\ gw_ret[t].via = "fresh"
     /\ cache_ready
     /\ wait_start[t] # 0
     /\ now - wait_start[t] < ReadyTimeout
     /\ gw_ret[t].wines # <<>>

(***************************************************************************)
(* C12.  A handler leaves the wait with cache_ready clear only when its    *)
(* 90 seconds have passed, and it can do so then; the warm-up fetch is     *)
(* still in flight, and the handler goes on: its get_wines call returns    *)
(* the list the cache holds, dispatches no fetch and changes nothing in    *)
(* the cache.                                                              *)
(***************************************************************************)
C12_TimeoutProceeds ==
  /\ [](\A t \in Clients :
          (/\ pc[t] = "wait_ready" /\ ~cache_ready /\ LoopFree
           /\ now - wait_start[t] >= ReadyTimeout) => ENABLED Timeout(t))
  /\ [][\A t \in Clients :
          (LeavesWait(t) /\ ~cache_ready)
            => /\ now - wait_start[t] >= ReadyTimeout
               /\ wine_cache.is_loading
               /\ job' = job
               /\ wine_cache' = wine_cache
               /\ Accepted(req[t])
                    => /\ pc'[t] = "got_wines"
                       /\ gw_ret'[t] = Ret(wine_cache.wines, "loading")]_vars

\* a handler has gone on after its wait timed out, cache_ready still clear
C12_Witness ==
  \E t \in Clients :
     /\ pc[t] = "got_wines" /\ gw_ret[t].via = "loading"
     /\ ~cache_ready
     /\ wait_start[t] # 0
     /\ now - wait_start[t] >= ReadyTimeout

(***************************************************************************)
(* C13.  A get_wines call that finds a fetch in flight and the cache not   *)
(* fresh returns the cached list in the same step, dispatches nothing and  *)
(* leaves the list, the timestamp and is_loading as they are.              *)
(***************************************************************************)
C13_LoadingReturnsCache ==
  [][\A t \in Tasks :
       (EntersGetWines(t) /\ wine_cache.is_loading /\ ~IsFresh(wine_cache, now))
         => /\ pc'[t] = "got_wines"
            /\ gw_ret'[t] = Ret(wine_cache.wines, "loading")
            /\ job' = job
            /\ wine_cache' = wine_cache]_vars

\* a call has returned the stale, non-empty list while another task's fetch
\* is in flight
C13_Witness ==
  \E t1, t2 \in Tasks :
     /\ t1 # t2
     /\ job[t1].state # "none"
     /\ pc[t2] = "got_wines" /\ gw_ret[t2].via = "loading"
     /\ StaleNonEmpty
     /\ gw_ret[t2].wines = wine_cache.wines

(***************************************************************************)
(* Vocabulary of the properties about the functions.                       *)
(***************************************************************************)
IdsOf(ws) == {ws[i].id : i \in 1..Len(ws)}
ItemsOf(ws) == {ws[i] : i \in 1..Len(ws)}

\* the failures of an endpoint the adapters are meant to absorb
AdapterFailures == {"unreachable", "http_error", "bad_payload"}

\* the pairs (store, query) that search_all(q) asks
PairsOf(q) == {c \in Calls : c[2] = q}

(***************************************************************************)
(* C14.  When endpoints are unreachable, answer non-2xx or send a payload  *)
(* that cannot be parsed, search_all still returns: no exception leaves    *)
(* it, it invokes every adapter, the result holds every item of the pairs  *)
(* that answered well and nothing from the pairs that failed.              *)
(***************************************************************************)
C14_SearchAllIsolatesFailures ==
  (/\ call.fn = "search_all"
   /\ Ran(call)
   /\ \A c \in PairsOf(call.q) : call.env[c] \in AdapterFailures \cup {"ok"})
  => /\ call.out.kind = "return"
     /\ ItemsOf(call.out.wines)
          = UNION {ItemsOf(Catalog(c[1], c[2])) :
                     c \in {d \in PairsOf(call.q) : call.env[d] = "ok"}}

\* what the endpoint of pair c delivers to its adapter
Listed(c, env) == IF env[c] = "ok" THEN Catalog(c[1], c[2]) ELSE <<>>

RECURSIVE Concat(_)
Concat(seqs) ==
  IF seqs = <<>> THEN <<>> ELSE Head(seqs) \o Concat(Tail(seqs))

\* the items of query q in the order search_all asks the stores
ListedFor(q, env) ==
  Concat([i \in 1..Len(Stores) |-> Listed(<<Stores[i], q>>, env)])

\* the primary pass and the premium pass, in discovery order
PrimaryListed(env) ==
  Concat([i \in 1..Len(WineTypes) |-> ListedFor(WineTypes[i], env)])
Discovery(env) == PrimaryListed(env) \o ListedFor(Premium, env)

\* the items of ws at the positions in P, in increasing position
Pick(ws, P) ==
  [k \in 1..Cardinality(P) |->
     ws[CHOOSE i \in P : Cardinality({j \in P : j <= i}) = k]]

\* the positions of ws whose id does not occur at an earlier position
FirstPositions(ws) ==
  {i \in 1..Len(ws) : \A j \in 1..(i - 1) : ws[j].id # ws[i].id}

FetchReturned ==
  call.fn = "fetch_wines_sync" /\ Ran(call) /\ call.out.kind = "return"

C16_PremiumOnlyAppends ==
  FetchReturned
  => LET all_wines == SearchAllTypes(WineTypes, call.env).wines
         premium_wines == SearchPremium(call.env).wines
         fresh == {i \in FirstPositions(premium_wines) :
                     premium_wines[i].id \notin IdsOf(all_wines)}
     IN /\ SubSeq(call.out.wines, 1, Len(all_wines)) = all_wines
        /\ SubSeq(call.out.wines, Len(all_wines) + 1, Len(call.out.wines))
             = Pick(premium_wines, fresh)

\* the premium pass delivers an id of the primary result, a new id, and
\* the new id a second time
C16_Witness ==
  /\ FetchReturned
  /\ LET all_wines == SearchAllTypes(WineTypes, call.env).wines
         premium_wines == SearchPremium(call.env).wines
     IN /\ all_wines # <<>>
        /\ Len(call.out.wines) > Len(all_wines)
        /\ \E i \in 1..Len(premium_wines) :
              premium_wines[i].id \in IdsOf(all_wines)
        /\ \E i, j \in 1..Len(premium_wines) :
              /\ i < j
              /\ premium_wines[i].id = premium_wines[j].id
              /\ premium_wines[i].id \notin IdsOf(all_wines)

(***************************************************************************)
(* C17.  score_wine returns an integer between 0 and 100.                  *)
(***************************************************************************)
C17_ScoreInRange ==
  (call.fn = "score_wine" /\ Ran(call))
  => call.out \in Int /\ 0 <= call.out /\ call.out <= MaxScore

\* every bonus applies: the sum is at the cap
C17_Witness ==
  /\ call.fn = "score_wine"
  /\ Ran(call)
  /\ TruthyStr(call.wine.region)
  /\ TruthyNum(call.wine.discount_price)
  /\ \E i \in 1..Len(call.primary_rec.regions) :
        In(Lower(call.primary_rec.regions[i]), Lower(call.wine.region))
  /\ \E i \in 1..Len(call.primary_rec.grape_varieties) :
        In(Lower(call.primary_rec.grape_varieties[i]), Lower(call.wine.name))
  /\ call.out = MaxScore

DistinctIds(ws) == \A i, j \in 1..Len(ws) : ws[i].id = ws[j].id => i = j

\* _diverse_selection has run on a list as the cache supplies it: no id
\* occurs twice (C15)
SelectionRan ==
  call.fn = "_diverse_selection" /\ Ran(call) /\ DistinctIds(call.wines)

\* how many items of ws are of the store
CountOf(ws, store) == Cardinality({i \in 1..Len(ws) : ws[i].store = store})

StoresOf(ws) == {ws[i].store : i \in 1..Len(ws)}

SortedByScoreDesc(ws) ==
  \A i, j \in 1..Len(ws) : i < j => ScoreKey(ws[i]) >= ScoreKey(ws[j])

\* the positions phase 1 picks: the items that fewer than min_per_store
\* items of their store precede in the store's sorted list
Phase1Positions(ws, min_per_store) ==
  {i \in 1..Len(ws) :
     Cardinality({j \in 1..Len(ws) :
                    /\ ws[j].store = ws[i].store
                    /\ \/ ScoreKey(ws[j]) > ScoreKey(ws[i])
                       \/ ScoreKey(ws[j]) = ScoreKey(ws[i]) /\ j < i})
       < min_per_store}

(***************************************************************************)
(* C18.  When there are at most limit items, _diverse_selection returns    *)
(* exactly the input items, sorted by score descending.                    *)
(***************************************************************************)
C18_ShortListSorted ==
  (SelectionRan /\ Len(call.wines) <= call.limit)
  => /\ Len(call.out) = Len(call.wines)
     /\ ItemsOf(call.out) = ItemsOf(call.wines)
     /\ SortedByScoreDesc(call.out)

\* a short list that is not in score order comes back reordered
C18_Witness ==
  /\ SelectionRan
  /\ Len(call.wines) <= call.limit
  /\ Len(call.wines) > 1
  /\ ~SortedByScoreDesc(call.wines)
  /\ call.out # call.wines

C20_Phase1NotTruncated ==
  (SelectionRan /\ Len(call.wines) > call.limit)
  => LET picks == Phase1Positions(call.wines, call.min_per_store)
     IN /\ Len(call.out) = Max(call.limit, Cardinality(picks))
        /\ Cardinality(picks) >= call.limit
           => ItemsOf(call.out) = {call.wines[i] : i \in picks}

\* phase 1 picks more than limit items and all of them are returned
C20_Witness ==
  /\ SelectionRan
  /\ call.limit > 0
  /\ Cardinality(Phase1Positions(call.wines, call.min_per_store)) > call.limit
  /\ Len(call.out) > call.limit

\* item j of ws comes before item i in a descending stable sort by score
Beats(ws, j, i) ==
  \/ ScoreKey(ws[j]) > ScoreKey(ws[i])
  \/ ScoreKey(ws[j]) = ScoreKey(ws[i]) /\ j < i

\* the positions phase 2 adds: of the items phase 1 left, the first
\* limit - (number of picks) in descending score order
Phase2Positions(ws, limit, min_per_store) ==
  LET picks == Phase1Positions(ws, min_per_store)
      left == (1..Len(ws)) \ picks
  IN {i \in left :
        Cardinality({j \in left : Beats(ws, j, i)})
          < limit - Cardinality(picks)}

C22_ResultSortedByScore ==
  (call.fn = "_diverse_selection" /\ Ran(call))
  => \A i, j \in 1..Len(call.out) :
        i < j => ~(ScoreKey(call.out[i]) < ScoreKey(call.out[j]))

\* phase 1 and phase 2 both contribute and leave the selection out of
\* score order before the final sort
C22_Witness ==
  /\ SelectionRan
  /\ Len(call.wines) > call.limit
  /\ Phase2Positions(call.wines, call.limit, call.min_per_store) # {}
  /\ \E i, j \in 1..Len(call.wines) :
        /\ i \in Phase1Positions(call.wines, call.min_per_store)
        /\ j \in Phase2Positions(call.wines, call.limit, call.min_per_store)
        /\ ScoreKey(call.wines[i]) < ScoreKey(call.wines[j])
  /\ SortedByScoreDesc(call.out)

\* a record parser has run and built an item
ParserEmitted == call.fn \in Parsers /\ Ran(call) /\ call.out.kind = "wine"

(***************************************************************************)
(* C23.  An item an adapter builds carries a discount percentage only when *)
(* regular price > discounted price > 0, and the percentage is then an     *)
(* integer in 0..100 equal to the reduction from the regular to the        *)
(* discounted price in percent; for 10.00 and 7.50 it is 25.               *)
(***************************************************************************)
C23_DiscountPercentSound ==
  (ParserEmitted /\ call.out.discount_percent # NoneNum)
  => /\ call.out.price > call.out.discount_price
     /\ call.out.discount_price > 0
     /\ call.out.discount_percent \in 0..100
     /\ call.out.discount_percent
          = TruncDiv((call.out.price - call.out.discount_price) * 100,
                     call.out.price)

(***************************************************************************)
(* C24.  No adapter emits an item whose price is zero: a record with no    *)
(* non-zero price is discarded by each of the four parsers.                *)
(***************************************************************************)
C24_NoZeroPrice ==
  /\ ParserEmitted => call.out.price # 0
  /\ (/\ call.fn \in Parsers
      /\ Ran(call)
      /\ OrZero(call.price) = 0
      /\ OrZero(call.other) = 0)
     => call.out = Dropped

\* the table of the lookup has an entry for the text
HasTranslations(fn, text) ==
  IF fn = "translate" THEN text \in TRANSLATIONS_KEYS
  ELSE text \in SUMMARY_KEYS

(***************************************************************************)
(* C25.  translate_summary and sommelier.translate return the text they    *)
(* were given, unchanged, whenever the text has no translation or the      *)
(* language asked for is not one of the supported ones.                    *)
(***************************************************************************)
C25_FallsBackToInput ==
  (/\ call.fn \in Lookups
   /\ Ran(call)
   /\ \/ ~HasTranslations(call.fn, call.text)
      \/ call.lang \notin Langs)
  => call.out = <<call.text, "src">>

ScoreRan == call.fn = "score_wine" /\ Ran(call)

\* the preferred regions the item's region tag contains, and the preferred
\* grapes the item's name contains, letter case aside
RegionsMatched ==
  {i \in 1..Len(call.primary_rec.regions) :
     /\ call.wine.region # NoneStr
     /\ In(Lower(call.primary_rec.regions[i]), Lower(call.wine.region))}
GrapesMatched ==
  {i \in 1..Len(call.primary_rec.grape_varieties) :
     In(Lower(call.primary_rec.grape_varieties[i]), Lower(call.wine.name))}

Bit(b) == IF b THEN 1 ELSE 0

(***************************************************************************)
(* C26.  score_wine returns min(100, 50 + 20 R + 15 G + 10 D + 5 H): R = 1 *)
(* iff the region tag contains a preferred region, G = 1 iff the name      *)
(* contains a preferred grape (both letter case aside), D = 1 iff the item *)
(* carries a discounted price (a discount_price that is set and not zero), *)
(* H = 1 iff the region tag is set and not empty.  Each bonus counts once  *)
(* however many regions or grapes match, and the score the item already    *)
(* carries plays no part.                                                  *)
(***************************************************************************)
C26_ScoreFormula ==
  ScoreRan
  => call.out
       = Min(100,
             50 + 20 * Bit(RegionsMatched # {})
                + 15 * Bit(GrapesMatched # {})
                + 10 * Bit(call.wine.discount_price \notin {NoneNum, 0})
                + 5 * Bit(call.wine.region \notin {NoneStr, <<>>}))

\* several regions and several grapes match on an item that already
\* carries another score
C26_Witness ==
  /\ ScoreRan
  /\ Cardinality(RegionsMatched) > 1
  /\ call.wine.match_score # NoneNum
  /\ call.wine.match_score # call.out
  /\ Cardinality(GrapesMatched) > 1

(***************************************************************************)
(* C27.  The items get_wines(postal_code) returns were fetched for that    *)
(* postal code: a call for one postal code never returns items fetched     *)
(* for another.                                                            *)
(***************************************************************************)
C27_ItemsOfOwnPostalCode ==
  \A t \in Tasks :
     (pc[t] = "got_wines" /\ gw_ret[t].wines # <<>>)
     => last_refresh.postal_code = PostalArg(t)

(***************************************************************************)
(* C28.  In every state the timestamp of the cache is unset only if the    *)
(* cached list is empty; the timestamp never decreases; and the cached     *)
(* items (the scores and notes written on them aside, C6) change only in   *)
(* the step of a successful refresh, which sets the timestamp.             *)
(***************************************************************************)
C28_CacheTimestampInvariant ==
  /\ [](~TruthyNum(wine_cache.last_update) => wine_cache.wines = <<>>)
  /\ [][wine_cache'.last_update >= wine_cache.last_update]_vars
  /\ [][Unscored(wine_cache'.wines) # Unscored(wine_cache.wines)
          => /\ \E t \in Tasks :
                   ResumesGetWines(t) /\ job[t].state = "return"
             /\ wine_cache'.last_update = now
             /\ TruthyNum(wine_cache'.last_update)]_vars

\* a second refresh has replaced a non-empty list and moved the timestamp
C28_Witness ==
  /\ wine_cache.wines # <<>>
  /\ wine_cache.last_update >= 1 + TTL
  /\ \E t \in Tasks : pc[t] = "got_wines" /\ gw_ret[t].via = "updated"

(***************************************************************************)
(* C29.  _diverse_selection never returns two items with the same id,      *)
(* whatever the list it is given, lists in which several items share an id *)
(* included.                                                               *)
(***************************************************************************)
C29_ResultIdsDistinct ==
  (call.fn = "_diverse_selection" /\ Ran(call)) => DistinctIds(call.out)

(***************************************************************************)
(* C30.  get_recommendations never modifies PAIRING_MATRIX or              *)
(* DEFAULT_RECOMMENDATIONS: after any sequence of calls, with any meal     *)
(* time ("lunch", which adds 2 to the priority of the full-bodied styles,  *)
(* included) and any language, the tables are as the class built them, and *)
(* two calls of the sequence with equal arguments have returned equal      *)
(* lists.                                                                  *)
(***************************************************************************)
C30_TablesUnchanged ==
  call.fn = "get_recommendations"
  => /\ call.tables = ClassTables
     /\ \A i, j \in 1..Len(call.done) :
          call.done[i] = call.done[j] => call.results[i] = call.results[j]

\* grilled fish at lunch in Russian asked twice: the call raises the
\* full-bodied white from priority 1 to 3 and translates the descriptions
C30_Witness ==
  /\ call.fn = "get_recommendations"
  /\ Len(call.done) = MaxCalls
  /\ call.done[1] = call.done[MaxCalls]
  /\ call.done[1].dish = "fish" /\ call.done[1].cooking_method = "grilled"
  /\ call.done[1].meal_time = "lunch" /\ call.done[1].lang = "ru"
  /\ \E i \in 1..Len(call.results[1]) :
       /\ call.results[1][i].style = "white_full"
       /\ call.results[1][i].priority = 3
       /\ call.results[1][i].description[2] = "ru"
       /\ \E j \in 1..Len(call.tables.matrix[<<"fish", "grilled">>]) :
            /\ call.tables.matrix[<<"fish", "grilled">>][j].style = "white_full"
            /\ call.tables.matrix[<<"fish", "grilled">>][j].priority = 1

=============================================================================
